---- MODULE Spec2Model ----
(***************************************************************************)
(* novel-proofer: the job store (jobs.py), the background dispatcher       *)
(* (background.py), the phase runner and chunk scheduler (runner.py) and   *)
(* the control commands that drive them (api.py), for one job.             *)
(*                                                                         *)
(* Optional values: a numeric field holds 0 for Python's None, a string    *)
(* field holds "None".  Payload fields that no operation reads (job_id,    *)
(* created_at, file names, format, cleanup_debug_dir, index, input_chars,  *)
(* output_chars) are left out of the records.                              *)
(***************************************************************************)
EXTENDS Integers, Sequences, FiniteSets, TLC

\* ---------------------------------------------------------------- bounds
NChunks == 2
MaxConcurrency == 2
MaxRetryCount == 1
MaxClock == 2
MaxRequests == 4

\* ------------------------------------------------------ program constants
_DEFAULT_MAX_RETRIES == 2
_JOB_STATE_VERSION == 2

JobId == "j1"
None == "None"
Model == "m"

JobStates == {"queued", "running", "paused", "done", "error", "cancelled"}
ChunkStates == {"pending", "processing", "retrying", "done", "error"}
_JOB_PHASES == {"validate", "process", "merge", "done"}
Terminal == {"done", "error", "cancelled"}

VARIABLES
    _jobs,                  \* JobStore._jobs: job_id -> JobStatus
    _cancelled,             \* JobStore._cancelled
    _paused,                \* JobStore._paused
    _persist_dirty_since,   \* JobStore._persist_dirty_since (its key set)
    disk,                   \* <persist_dir>/<job_id>.json: job_id -> dict
    files,                  \* artifacts on disk: "output", <<"out", i>>, <<"pre", i>>
    _in_flight,             \* background._in_flight (its key set)
    fut,                    \* state of the future tracked for the job
    live,                   \* number of job functions executing in the pool
    done_cbs,               \* callbacks attached to the future, not yet run
    clock,                  \* time.time(), advanced when a task is submitted
    task,                   \* locals of the job function running in the pool
    workers,                \* locals of the chunk workers of the scheduler
    api,                    \* locals of the request handler in progress
    heap,                   \* the objects of the store and of a caller of get()
    call,                   \* locals of one resilient LLM call in a chunk worker
    post,                   \* bookkeeping of add_done_callback and of the callbacks it runs
    io                      \* file contents and the locals of the file writers and of the merge

storeVars == <<_jobs, _cancelled, _paused, _persist_dirty_since, disk>>
poolVars == <<_in_flight, fut, live, done_cbs>>
vars == <<_jobs, _cancelled, _paused, _persist_dirty_since, disk, files,
          _in_flight, fut, live, done_cbs, clock, task, workers, api, heap, call, post, io>>

\* The object graph is tracked only where aliasing is examined (SnapSpec):
\* objs[id] is the content of object id, root the JobStatus object in
\* JobStore._jobs, held the JobStatus object a caller of get() holds and seen
\* its content when get() returned it.  Id 0 is no object.
EmptyHeap == [objs |-> <<>>, root |-> 0, held |-> 0, seen |-> None]

\* The callbacks given to add_done_callback are tracked only where the
\* dispatcher is examined (CallbackSpec).  Futures are numbered by the clock
\* value their submit left.  got is the caller's local fut (0 is None, else
\* the number of the future it read), cb the callback of the call in
\* progress, pending the callbacks of the _wrap closures attached to a future
\* and not yet run, each with the number of its future; and as a record of
\* what happened: calls the add_done_callback calls made, attached the _wrap
\* closures left on an unfinished future, ran the callbacks run, logged the
\* exceptions logged by _wrap, propagated the exceptions that reached a
\* caller of add_done_callback.
IdlePost == [got |-> 0, cb |-> "none", pending |-> <<>>, calls |-> 0,
             attached |-> 0, ran |-> 0, logged |-> 0, propagated |-> 0]

\* File contents are tracked only where the writes themselves are examined
\* (AtomicSpec) and where the merged text is computed (MergeSpec); elsewhere
\* a file is a name in files.
IdleIo == [pc |-> "idle"]

\* The locals of _run_with_retries are tracked only where the retry loop is
\* examined (RetrySpec): i the loop index, last_code the status of the last
\* LLMError (0 is None), and as a record of what the call did: executed the
\* outcomes of execute() so far, on_retry the retry indices passed to the
\* callback, slept the durations passed to time.sleep, raised the status of
\* the LLMError that left the call (0 is None), retries0 the chunk's retries
\* when the call began, stopped_asleep whether cancel() came during a sleep,
\* failed which except branch of the worker was entered ("no" is neither).
IdleCall == [pc |-> "idle", i |-> 0, last_code |-> 0, executed |-> <<>>,
             on_retry |-> <<>>, slept |-> <<>>, raised |-> 0,
             retries0 |-> 0, stopped_asleep |-> FALSE, failed |-> "no"]

\* ------------------------------------------------------------- job store
Now == clock

ChunkStatus(state, llm_model) ==
    [state |-> state, started_at |-> 0, finished_at |-> 0, retries |-> 0,
     last_error_code |-> 0, last_error_message |-> None, llm_model |-> llm_model]

JobStatus(total_chunks) ==
    [state |-> "queued", phase |-> "validate", started_at |-> 0, finished_at |-> 0,
     total_chunks |-> total_chunks, done_chunks |-> 0,
     last_error_code |-> 0, last_retry_count |-> 0, last_llm_model |-> None,
     stats |-> {}, chunk_statuses |-> <<>>,
     error |-> None, output_path |-> None, work_dir |-> None]

Indices(st) == 1..Len(st.chunk_statuses)

CountDone(chunks) == Cardinality({i \in 1..Len(chunks) : chunks[i].state = "done"})

\* _snapshot_job copies every field; the records of the model are values, so
\* the copy is the record itself (aliasing is modelled in SnapSpec).
_snapshot_job(st) == st

\* The body of update()'s loop over kwargs, for a job that is present and not
\* cancelled.
UpdateSkips_started_at_only(st, k, v) ==
    k = "started_at" /\ st.started_at # 0 /\ v # 0

UpdateSkips_paused_only(st, k, v) ==
    k = "state" /\ st.state = "paused" /\ v \in {"queued", "running"}

UpdateSkips(st, k, v) ==
    \/ k = "started_at" /\ st.started_at # 0 /\ v # 0
    \/ k = "state" /\ st.state = "paused" /\ v \in {"queued", "running"}

ApplyUpdate(st, kw) ==
    [k \in DOMAIN st |->
        IF k \in DOMAIN kw /\ ~UpdateSkips(st, k, kw[k]) THEN kw[k] ELSE st[k]]

\* ----------------------------------------------------- state file format
_chunk_to_dict(cs) ==
    [state |-> cs.state, started_at |-> cs.started_at, finished_at |-> cs.finished_at,
     retries |-> cs.retries, last_error_code |-> cs.last_error_code,
     last_error_message |-> cs.last_error_message, llm_model |-> cs.llm_model]

_job_to_dict(st) ==
    [version |-> _JOB_STATE_VERSION,
     job |-> [state |-> st.state, phase |-> st.phase, started_at |-> st.started_at,
              finished_at |-> st.finished_at, output_path |-> st.output_path,
              total_chunks |-> st.total_chunks, done_chunks |-> st.done_chunks,
              last_error_code |-> st.last_error_code,
              last_retry_count |-> st.last_retry_count,
              last_llm_model |-> st.last_llm_model, stats |-> st.stats,
              error |-> st.error, work_dir |-> st.work_dir,
              chunk_statuses |-> [i \in 1..Len(st.chunk_statuses) |->
                                     _chunk_to_dict(st.chunk_statuses[i])]]]

\* str(x).strip() or None, on the model names that occur ("" and Model carry no
\* surrounding blanks: _llm_from_options stripped them).
StripOrNone(x) == IF x = None \/ x = "" THEN None ELSE x

_chunk_from_dict_raw(d) == d

_chunk_from_dict(d) ==
    [state |-> d.state, started_at |-> d.started_at, finished_at |-> d.finished_at,
     retries |-> d.retries, last_error_code |-> d.last_error_code,
     last_error_message |-> d.last_error_message, llm_model |-> StripOrNone(d.llm_model)]

_job_from_dict(d) ==
    LET job == d.job
        chunks == [i \in 1..Len(job.chunk_statuses) |-> _chunk_from_dict(job.chunk_statuses[i])]
    IN [state |-> job.state,
        phase |-> IF job.phase \in _JOB_PHASES THEN job.phase ELSE "validate",
        started_at |-> job.started_at, finished_at |-> job.finished_at,
        total_chunks |-> job.total_chunks, done_chunks |-> job.done_chunks,
        last_error_code |-> job.last_error_code, last_retry_count |-> job.last_retry_count,
        last_llm_model |-> StripOrNone(job.last_llm_model), stats |-> job.stats,
        chunk_statuses |-> chunks, error |-> job.error,
        output_path |-> job.output_path, work_dir |-> job.work_dir]

HealChunk_as_loaded(cs) == cs

HealChunk(cs) ==
    IF cs.state \in {"processing", "retrying"}
    THEN [cs EXCEPT !.state = "pending", !.started_at = 0, !.finished_at = 0]
    ELSE cs

Max(a, b) == IF a >= b THEN a ELSE b

_heal_loaded_job_as_read(st) == st

\* The assignments of _heal_loaded_job, in order.
_heal_loaded_job(st) ==
    LET s1 == IF st.state \in {"queued", "running"}
              THEN [st EXCEPT !.state = "paused", !.finished_at = 0] ELSE st
        chunks == [i \in 1..Len(s1.chunk_statuses) |-> HealChunk(s1.chunk_statuses[i])]
        all_done == \A i \in 1..Len(chunks) : chunks[i].state = "done"
        s2 == [s1 EXCEPT !.chunk_statuses = chunks,
                         !.total_chunks = Max(@, Len(chunks)),
                         !.done_chunks = CountDone(chunks)]
        p1 == IF s2.phase \notin _JOB_PHASES THEN "validate" ELSE s2.phase
        p2 == IF chunks = <<>>
              THEN (IF s2.state = "done" THEN "done" ELSE "validate")
              ELSE (IF s2.state = "done" THEN "done"
                    ELSE IF all_done THEN "merge" ELSE "process")
        p3 == IF p2 = "done" /\ s2.state # "done"
              THEN (IF chunks # <<>> /\ all_done THEN "merge" ELSE "process")
              ELSE p2
        p4 == IF s2.state = "done" THEN "done" ELSE p3
    IN [s2 EXCEPT !.phase = p4]

\* _flush_job(job_id, require_dirty=False) on the store as it will be after the
\* mutation that calls it: the snapshot is written and the dirty mark cleared.
FlushNow(jobsAfter, job_id) ==
    /\ disk' = IF job_id \in DOMAIN jobsAfter
               THEN [j \in {job_id} |-> _job_to_dict(_snapshot_job(jobsAfter[job_id]))]
               ELSE disk
    /\ _persist_dirty_since' = _persist_dirty_since \ {job_id}

MarkDirty(job_id) ==
    /\ _persist_dirty_since' = _persist_dirty_since \cup {job_id}
    /\ UNCHANGED disk

\* update() past its two early returns: the fields are set, the paused flag is
\* dropped on a terminal state, and a terminal job is flushed at once.
UpdateJob_keeps_paused(job_id, kw) ==
    LET st2 == ApplyUpdate(_jobs[job_id], kw)
        jobs2 == [_jobs EXCEPT ![job_id] = st2]
    IN /\ _jobs' = jobs2
       /\ UNCHANGED <<_paused, _cancelled>>
       /\ IF st2.state \in Terminal
          THEN FlushNow(jobs2, job_id) ELSE MarkDirty(job_id)

UpdateJob(job_id, kw) ==
    LET st2 == ApplyUpdate(_jobs[job_id], kw)
        jobs2 == [_jobs EXCEPT ![job_id] = st2]
    IN /\ _jobs' = jobs2
       /\ _paused' = IF "state" \in DOMAIN kw /\ kw.state \in Terminal
                     THEN _paused \ {job_id} ELSE _paused
       /\ UNCHANGED _cancelled
       /\ IF st2.state \in Terminal
          THEN FlushNow(jobs2, job_id) ELSE MarkDirty(job_id)

update_unguarded(job_id, kw) ==
    IF job_id \notin DOMAIN _jobs
    THEN UNCHANGED storeVars
    ELSE UpdateJob(job_id, kw)

update(job_id, kw) ==
    IF job_id \notin DOMAIN _jobs \/ _jobs[job_id].state = "cancelled"
    THEN UNCHANGED storeVars
    ELSE UpdateJob(job_id, kw)

init_chunks_skipped(job_id, total_chunks, llm_model) == UNCHANGED storeVars

init_chunks(job_id, total_chunks, llm_model) ==
    IF job_id \notin DOMAIN _jobs
    THEN UNCHANGED storeVars
    ELSE LET jobs2 == [_jobs EXCEPT ![job_id] =
                 [@ EXCEPT !.total_chunks = total_chunks,
                           !.done_chunks = 0,
                           !.chunk_statuses =
                               [i \in 1..total_chunks |-> ChunkStatus("pending", llm_model)]]]
         IN /\ _jobs' = jobs2
            /\ UNCHANGED <<_cancelled, _paused>>
            /\ FlushNow(jobs2, job_id)

ApplyUpdateChunk(st, index, kw) ==
    LET cs == st.chunk_statuses[index]
        cs2 == [k \in DOMAIN cs |-> IF k \in DOMAIN kw THEN kw[k] ELSE cs[k]]
        changed == "state" \in DOMAIN kw /\ cs2.state # cs.state
        dec == IF changed /\ cs.state = "done" /\ st.done_chunks > 0 THEN 1 ELSE 0
        inc == IF changed /\ cs2.state = "done" THEN 1 ELSE 0
    IN [st EXCEPT !.chunk_statuses[index] = cs2,
                  !.done_chunks = @ - dec + inc]

update_chunk_unguarded(job_id, index, kw) ==
    IF job_id \notin DOMAIN _jobs \/ index \notin Indices(_jobs[job_id])
    THEN UNCHANGED storeVars
    ELSE /\ _jobs' = [_jobs EXCEPT ![job_id] = ApplyUpdateChunk(_jobs[job_id], index, kw)]
         /\ UNCHANGED <<_cancelled, _paused>>
         /\ MarkDirty(job_id)

update_chunk(job_id, index, kw) ==
    IF \/ job_id \notin DOMAIN _jobs
       \/ _jobs[job_id].state = "cancelled"
       \/ job_id \in _cancelled
       \/ index \notin Indices(_jobs[job_id])
    THEN UNCHANGED storeVars
    ELSE LET st == _jobs[job_id]
             st2 == ApplyUpdateChunk(st, index, kw)
             should_persist ==
                 \/ "state" \in DOMAIN kw /\ st2.chunk_statuses[index].state # st.chunk_statuses[index].state
                 \/ DOMAIN kw \cap {"retries", "last_error_code", "last_error_message"} # {}
         IN /\ _jobs' = [_jobs EXCEPT ![job_id] = st2]
            /\ UNCHANGED <<_cancelled, _paused>>
            /\ IF should_persist THEN MarkDirty(job_id)
               ELSE UNCHANGED <<_persist_dirty_since, disk>>

add_retry(job_id, index, inc, last_error_code, last_error_message) ==
    IF job_id \notin DOMAIN _jobs
    THEN UNCHANGED storeVars
    ELSE LET st == _jobs[job_id]
             st1 == [st EXCEPT !.last_retry_count = @ + inc,
                               !.last_error_code =
                                   IF last_error_code # 0 THEN last_error_code ELSE @]
             st2 == IF index \in Indices(st)
                    THEN [st1 EXCEPT !.chunk_statuses[index] =
                             [@ EXCEPT !.retries = @ + inc,
                                       !.last_error_code = last_error_code,
                                       !.last_error_message = last_error_message]]
                    ELSE st1
         IN /\ _jobs' = [_jobs EXCEPT ![job_id] = st2]
            /\ UNCHANGED <<_cancelled, _paused>>
            /\ MarkDirty(job_id)

\* stats holds the keys of the stats dict (the counts are not read anywhere).
add_stat(job_id, key) ==
    IF job_id \notin DOMAIN _jobs
    THEN UNCHANGED storeVars
    ELSE /\ _jobs' = [_jobs EXCEPT ![job_id].stats = @ \cup {key}]
         /\ UNCHANGED <<_cancelled, _paused, _persist_dirty_since, disk>>

CancelChunk_keep(cs) == cs

CancelChunk(cs) ==
    IF cs.state \in {"processing", "retrying"}
    THEN [cs EXCEPT !.state = "pending", !.started_at = 0, !.finished_at = 0,
                    !.last_error_message = IF @ = None THEN "cancelled" ELSE @]
    ELSE cs

cancel_unflushed(job_id) ==
    IF job_id \notin DOMAIN _jobs
    THEN UNCHANGED storeVars
    ELSE LET st == _jobs[job_id]
             st1 == IF st.state \notin {"done", "error"}
                    THEN [st EXCEPT !.state = "cancelled", !.finished_at = Now]
                    ELSE st
             st2 == [st1 EXCEPT !.chunk_statuses =
                        [i \in Indices(st) |-> CancelChunk(st.chunk_statuses[i])]]
         IN /\ _jobs' = [_jobs EXCEPT ![job_id] = st2]
            /\ _cancelled' = _cancelled \cup {job_id}
            /\ _paused' = _paused \ {job_id}
            /\ MarkDirty(job_id)

cancel(job_id) ==
    IF job_id \notin DOMAIN _jobs
    THEN UNCHANGED storeVars
    ELSE LET st == _jobs[job_id]
             st1 == IF st.state \notin {"done", "error"}
                    THEN [st EXCEPT !.state = "cancelled", !.finished_at = Now]
                    ELSE st
             st2 == [st1 EXCEPT !.chunk_statuses =
                        [i \in Indices(st) |-> CancelChunk(st.chunk_statuses[i])]]
             jobs2 == [_jobs EXCEPT ![job_id] = st2]
         IN /\ _jobs' = jobs2
            /\ _cancelled' = _cancelled \cup {job_id}
            /\ _paused' = _paused \ {job_id}
            /\ FlushNow(jobs2, job_id)

\* pause() and resume() return a boolean: PauseOk/ResumeOk is that result.
PauseOk_unless_cancelled(job_id) ==
    job_id \in DOMAIN _jobs /\ _jobs[job_id].state # "cancelled"

PauseOk(job_id) ==
    job_id \in DOMAIN _jobs /\ _jobs[job_id].state \in {"queued", "running"}

pause(job_id) ==
    IF ~PauseOk(job_id)
    THEN UNCHANGED storeVars
    ELSE /\ _jobs' = [_jobs EXCEPT ![job_id] = [@ EXCEPT !.state = "paused", !.finished_at = 0]]
         /\ _paused' = _paused \cup {job_id}
         /\ UNCHANGED _cancelled
         /\ MarkDirty(job_id)

ResumeOk(job_id) ==
    job_id \in DOMAIN _jobs /\ (_jobs[job_id].state = "paused" \/ job_id \in _paused)

resume(job_id) ==
    IF ~ResumeOk(job_id)
    THEN UNCHANGED storeVars
    ELSE /\ _jobs' = [_jobs EXCEPT ![job_id] =
                 IF @.state = "paused"
                 THEN [@ EXCEPT !.state = "queued", !.finished_at = 0] ELSE @]
         /\ _paused' = _paused \ {job_id}
         /\ UNCHANGED _cancelled
         /\ MarkDirty(job_id)

delete(job_id) ==
    /\ _jobs' = [j \in DOMAIN _jobs \ {job_id} |-> _jobs[j]]
    /\ _cancelled' = _cancelled \ {job_id}
    /\ _paused' = _paused \ {job_id}
    /\ _persist_dirty_since' = _persist_dirty_since \ {job_id}
    /\ disk' = IF job_id \in DOMAIN _jobs
               THEN [j \in DOMAIN disk \ {job_id} |-> disk[j]] ELSE disk

is_cancelled_never(job_id) == FALSE

is_cancelled(job_id) == job_id \in _cancelled

is_paused_never(job_id) == FALSE

is_paused(job_id) == job_id \in _paused


HasJob == JobId \in DOMAIN _jobs
Job == _jobs[JobId]

\* ------------------------------------------------- background dispatcher
\* max_concurrency is llm.max_concurrency of the request that started the
\* task: MaxConcurrency, except where the scheduler itself is examined
\* (SchedSpec), which draws it from 0..MaxConcurrency.
IdleTask ==
    [fn |-> "none", pc |-> "idle", k |-> 0, pending |-> <<>>, in_flight |-> {},
     outcome |-> "none", total |-> 0, cur_done |-> 0, max_concurrency |-> MaxConcurrency]

StartTask(fn) == [IdleTask EXCEPT !.fn = fn, !.pc = "get"]

IdleWorker == [pc |-> "idle", i |-> 0, code |-> 0, blank |-> FALSE]

Tick == IF clock < MaxClock THEN clock + 1 ELSE clock

SubmitOk_any(job_id) == TRUE

\* submit() returns normally iff the job id is not tracked.
SubmitOk(job_id) == job_id \notin _in_flight

\* submit(job_id, fn): under _lock the id is checked and the future is created
\* and tracked; _done is then attached to it.
submit(job_id, fn) ==
    /\ SubmitOk(job_id)
    /\ _in_flight' = _in_flight \cup {job_id}
    /\ fut' = "running"
    /\ live' = live + 1
    /\ done_cbs' = done_cbs \cup {"_done"}
    /\ task' = StartTask(fn)
    /\ clock' = Tick
    /\ UNCHANGED <<heap, call, post, io>>

\* The job function returns: the future becomes finished.
TaskReturn ==
    /\ task.pc = "ret"
    /\ task' = IdleTask
    /\ fut' = "finished"
    /\ live' = live - 1
    /\ UNCHANGED <<storeVars, files, _in_flight, done_cbs, clock, heap, call, post, io, workers, api>>

_done_early ==
    /\ "_done" \in done_cbs
    /\ _in_flight' = _in_flight \ {JobId}
    /\ done_cbs' = done_cbs \ {"_done"}
    /\ UNCHANGED <<storeVars, files, fut, live, clock, heap, call, post, io, task, workers, api>>

\* _done(f): the pool thread untracks the finished future.
_done ==
    /\ fut = "finished"
    /\ "_done" \in done_cbs
    /\ _in_flight' = _in_flight \ {JobId}
    /\ done_cbs' = done_cbs \ {"_done"}
    /\ UNCHANGED <<storeVars, files, fut, live, clock, heap, call, post, io, task, workers, api>>

\* reset_job._cleanup_and_delete: the job's directories, its input cache and
\* its state file are removed, then the registry entry.
_cleanup_and_delete ==
    /\ files' = {f \in files : f[1] = "output"}
    /\ _jobs' = [j \in DOMAIN _jobs \ {JobId} |-> _jobs[j]]
    /\ _cancelled' = _cancelled \ {JobId}
    /\ _paused' = _paused \ {JobId}
    /\ _persist_dirty_since' = _persist_dirty_since \ {JobId}
    /\ disk' = [j \in DOMAIN disk \ {JobId} |-> disk[j]]

\* add_done_callback's _wrap, run by the pool thread after _done.
_wrap ==
    /\ fut = "finished"
    /\ done_cbs = {"_wrap"}
    /\ _cleanup_and_delete
    /\ done_cbs' = {}
    /\ UNCHANGED <<_in_flight, fut, live, clock, heap, call, post, io, task, workers, api>>

\* --------------------------------------------------------------- runner
TaskAt(fn, pc) == task.fn = fn /\ task.pc = pc
Goto(pc) == task' = [task EXCEPT !.pc = pc]
TaskFrame == UNCHANGED <<files, poolVars, clock, heap, call, post, io, workers, api>>

JobGone == ~HasJob \/ Job.state = "cancelled" \/ is_cancelled(JobId)

\* The indices (1-based) of the chunks whose state is in S, in order.
RECURSIVE SelectIdx(_, _, _)
SelectIdx(chunks, S, i) ==
    IF i > Len(chunks) THEN <<>>
    ELSE (IF chunks[i].state \in S THEN <<i>> ELSE <<>>) \o SelectIdx(chunks, S, i + 1)

run_job ==
    /\ task.fn = "run_job"
    /\ task.pc \in {"get", "run", "loop_c", "loop_p", "init", "stat", "fin_c", "fin_p",
                    "upd_cancelled", "upd_paused", "upd_ready"}
    /\ TaskFrame
    /\ CASE task.pc = "get" ->
              /\ Goto(IF JobGone THEN "ret" ELSE "run")
              /\ UNCHANGED storeVars
         [] task.pc = "run" ->
              /\ update(JobId, [state |-> "running", phase |-> "validate", started_at |-> Now,
                                finished_at |-> 0, error |-> None, last_llm_model |-> Model])
              /\ Goto("loop_c")
         [] task.pc = "loop_c" ->
              /\ task' = [task EXCEPT !.pc = IF task.k = NChunks THEN "init"
                                            ELSE IF is_cancelled(JobId) THEN "upd_cancelled"
                                            ELSE "loop_p"]
              /\ UNCHANGED storeVars
         [] task.pc = "loop_p" ->
              /\ task' = IF is_paused(JobId) THEN [task EXCEPT !.pc = "upd_paused"]
                         ELSE [task EXCEPT !.pc = "loop_c", !.k = @ + 1]
              /\ UNCHANGED storeVars
         [] task.pc = "init" ->
              /\ init_chunks(JobId, task.k, Model)
              /\ Goto("stat")
         [] task.pc = "stat" ->
              /\ add_stat(JobId, "rules")
              /\ Goto("fin_c")
         [] task.pc = "fin_c" ->
              /\ Goto(IF is_cancelled(JobId) THEN "upd_cancelled" ELSE "fin_p")
              /\ UNCHANGED storeVars
         [] task.pc = "fin_p" ->
              /\ Goto(IF is_paused(JobId) THEN "upd_paused" ELSE "upd_ready")
              /\ UNCHANGED storeVars
         [] task.pc = "upd_cancelled" ->
              /\ update(JobId, [state |-> "cancelled", finished_at |-> Now])
              /\ Goto("ret")
         [] task.pc = "upd_paused" ->
              /\ update(JobId, [state |-> "paused", phase |-> "validate", finished_at |-> 0])
              /\ Goto("ret")
         [] task.pc = "upd_ready" ->
              /\ update(JobId, [state |-> "paused", phase |-> "process",
                                finished_at |-> 0, error |-> None])
              /\ Goto("ret")

\* resume_paused_job and retry_failed_chunks up to the call of
\* _run_llm_for_indices: the snapshot, the targets and their reset to pending.
ProcessTargets(fn) ==
    IF fn = "resume_paused_job" THEN {"pending", "processing", "retrying"}
    ELSE {"error", "pending", "retrying"}

ProcessHead ==
    /\ task.fn \in {"resume_paused_job", "retry_failed_chunks"}
    /\ task.pc \in {"get", "queue", "reset"}
    /\ TaskFrame
    /\ CASE task.pc = "get" ->
              /\ UNCHANGED storeVars
              /\ IF JobGone THEN Goto("ret")
                 ELSE LET targets == SelectIdx(Job.chunk_statuses, ProcessTargets(task.fn), 1)
                      IN task' = [task EXCEPT
                              !.total = Len(Job.chunk_statuses),
                              !.pending = targets,
                              !.k = 1,
                              !.pc = IF targets = <<>> THEN "f_c"
                                     ELSE IF task.fn = "retry_failed_chunks" THEN "queue"
                                     ELSE "reset"]
         [] task.pc = "queue" ->
              /\ update(JobId, [state |-> "queued", phase |-> "process", finished_at |-> 0,
                                error |-> None, last_llm_model |-> Model])
              /\ Goto("reset")
         [] task.pc = "reset" ->
              /\ update_chunk(JobId, task.pending[task.k],
                              [state |-> "pending", started_at |-> 0, finished_at |-> 0,
                               llm_model |-> Model])
              /\ task' = [task EXCEPT !.k = @ + 1,
                                      !.pc = IF task.k = Len(task.pending) THEN "s_run" ELSE "reset"]

resume_paused_job == task.fn = "resume_paused_job" /\ ProcessHead
retry_failed_chunks == task.fn = "retry_failed_chunks" /\ ProcessHead


\* ------------------------------------------------------ chunk scheduler
Finished(S) == {i \in S : workers[i].pc = "finished"}

max_workers_as_given == task.max_concurrency + NChunks

\* max_workers = max(1, int(llm.max_concurrency))
max_workers == Max(1, task.max_concurrency)

\* Leaving the inner "fill up the worker pool" loop: `if not in_flight: break`.
AfterFill == IF task.in_flight = {} THEN "s_post_c" ELSE "s_wait"

_run_llm_for_indices ==
    /\ task.pc \in {"s_run", "s_top", "s_paused", "s_fill_c", "s_fill_p", "s_wait",
                    "s_post_c", "s_post_p", "s_mark", "s_join"}
    /\ UNCHANGED <<files, poolVars, clock, heap, call, post, io, api>>
    /\ CASE task.pc = "s_run" ->
              /\ update(JobId, [state |-> "running", phase |-> "process", started_at |-> Now,
                                finished_at |-> 0, error |-> None, last_llm_model |-> Model])
              /\ Goto("s_top")
              /\ UNCHANGED workers
         [] task.pc = "s_top" ->
              /\ Goto(IF task.pending = <<>> /\ task.in_flight = {} THEN "s_post_c"
                      ELSE IF is_cancelled(JobId) THEN "s_post_c"
                      ELSE "s_paused")
              /\ UNCHANGED <<storeVars, workers>>
         [] task.pc = "s_paused" ->
              /\ Goto(IF is_paused(JobId)
                      THEN (IF task.in_flight = {} THEN "s_post_c" ELSE "s_wait")
                      ELSE "s_fill_c")
              /\ UNCHANGED <<storeVars, workers>>
         [] task.pc = "s_fill_c" ->
              /\ Goto(IF /\ task.pending # <<>>
                         /\ Cardinality(task.in_flight) < max_workers
                         /\ ~is_cancelled(JobId)
                      THEN "s_fill_p" ELSE AfterFill)
              /\ UNCHANGED <<storeVars, workers>>
         [] task.pc = "s_fill_p" ->
              /\ UNCHANGED storeVars
              /\ IF is_paused(JobId)
                 THEN Goto(AfterFill) /\ UNCHANGED workers
                 ELSE LET i == Head(task.pending)
                      IN /\ task' = [task EXCEPT !.pending = Tail(@),
                                                 !.in_flight = @ \cup {i},
                                                 !.pc = "s_fill_c"]
                         /\ workers' = [workers EXCEPT ![i] = [IdleWorker EXCEPT !.pc = "w_start"]]
         [] task.pc = "s_wait" ->
              \* concurrent.futures.wait(..., timeout): the futures finished by now
              /\ task' = [task EXCEPT !.in_flight = @ \ Finished(@), !.pc = "s_top"]
              /\ workers' = [i \in DOMAIN workers |->
                                IF i \in Finished(task.in_flight) THEN IdleWorker ELSE workers[i]]
              /\ UNCHANGED storeVars
         [] task.pc = "s_post_c" ->
              \* when cancelled, update_chunk(i, PENDING) on the unsubmitted indices
              \* is dropped by update_chunk's own guard
              /\ task' = IF is_cancelled(JobId)
                         THEN [task EXCEPT !.outcome = "cancelled", !.pc = "s_join"]
                         ELSE [task EXCEPT !.pc = "s_post_p"]
              /\ UNCHANGED <<storeVars, workers>>
         [] task.pc = "s_post_p" ->
              /\ task' = IF is_paused(JobId) /\ task.pending # <<>>
                         THEN [task EXCEPT !.k = 1, !.pc = "s_mark"]
                         ELSE [task EXCEPT !.outcome = "done", !.pc = "s_join"]
              /\ UNCHANGED <<storeVars, workers>>
         [] task.pc = "s_mark" ->
              /\ update_chunk(JobId, task.pending[task.k], [state |-> "pending"])
              /\ task' = IF task.k = Len(task.pending)
                         THEN [task EXCEPT !.outcome = "paused", !.pc = "s_join"]
                         ELSE [task EXCEPT !.k = @ + 1]
              /\ UNCHANGED workers
         [] task.pc = "s_join" ->
              \* leaving `with ThreadPoolExecutor(...)`: shutdown(wait=True)
              /\ Finished(task.in_flight) = task.in_flight
              /\ task' = [task EXCEPT !.in_flight = {}, !.pc = "a_c"]
              /\ workers' = [i \in DOMAIN workers |-> IdleWorker]
              /\ UNCHANGED storeVars

\* resume_paused_job / retry_failed_chunks after _run_llm_for_indices returned,
\* with _post_llm_deterministic_pass and _finalize_processing.
ProcessTail ==
    /\ task.pc \in {"a_c", "a_p", "a_upd_cancelled", "a_upd_paused", "pp_c", "pp_stat",
                    "f_c", "f_upd_cancelled", "f_get", "f_upd_error", "f_upd_merge"}
    /\ TaskFrame
    /\ CASE task.pc = "a_c" ->
              /\ Goto(IF task.outcome = "cancelled" \/ is_cancelled(JobId)
                      THEN "a_upd_cancelled" ELSE "a_p")
              /\ UNCHANGED storeVars
         [] task.pc = "a_p" ->
              /\ Goto(IF task.outcome = "paused" \/ is_paused(JobId)
                      THEN "a_upd_paused" ELSE "pp_c")
              /\ UNCHANGED storeVars
         [] task.pc \in {"a_upd_cancelled", "f_upd_cancelled"} ->
              /\ update(JobId, [state |-> "cancelled", finished_at |-> Now])
              /\ Goto("ret")
         [] task.pc = "a_upd_paused" ->
              /\ update(JobId, [state |-> "paused", phase |-> "process", finished_at |-> 0])
              /\ Goto("ret")
         [] task.pc = "pp_c" ->
              \* _post_llm_deterministic_pass: get, then is_cancelled per chunk
              /\ Goto(IF ~HasJob THEN "f_c" ELSE IF is_cancelled(JobId) THEN "f_c" ELSE "pp_stat")
              /\ UNCHANGED storeVars
         [] task.pc = "pp_stat" ->
              /\ add_stat(JobId, "post_rules")
              /\ Goto("f_c")
         [] task.pc = "f_c" ->
              /\ Goto(IF is_cancelled(JobId) THEN "f_upd_cancelled" ELSE "f_get")
              /\ UNCHANGED storeVars
         [] task.pc = "f_get" ->
              /\ UNCHANGED storeVars
              /\ IF ~HasJob THEN Goto("ret")
                 ELSE task' = [task EXCEPT
                         !.cur_done = Job.done_chunks,
                         !.pc = IF \E i \in Indices(Job) : Job.chunk_statuses[i].state = "error"
                                THEN "f_upd_error" ELSE "f_upd_merge"]
         [] task.pc = "f_upd_error" ->
              /\ update(JobId, [state |-> "error", phase |-> "process", finished_at |-> Now,
                                error |-> "some chunks failed", done_chunks |-> task.cur_done])
              /\ Goto("ret")
         [] task.pc = "f_upd_merge" ->
              /\ update(JobId, [state |-> "paused", phase |-> "merge", finished_at |-> 0,
                                error |-> None, done_chunks |-> task.total])
              /\ Goto("ret")

_finalize_processing == task.pc \in {"f_c", "f_upd_cancelled", "f_get", "f_upd_error", "f_upd_merge"} /\ ProcessTail
_post_llm_deterministic_pass == task.pc \in {"pp_c", "pp_stat"} /\ ProcessTail
ProcessAfter == task.pc \in {"a_c", "a_p", "a_upd_cancelled", "a_upd_paused"} /\ ProcessTail

\* ------------------------------------------------------ per-chunk worker
WorkerFrame == UNCHANGED <<poolVars, clock, heap, call, post, io, task, api>>
WGoto(i, pc) == workers' = [workers EXCEPT ![i].pc = pc]

\* One attempt of _run_with_retries: the outcomes of execute().
Outcomes == {"ok", "fatal", "transient"}

_llm_worker(i) ==
    /\ workers[i].pc \notin {"idle", "finished"}
    /\ WorkerFrame
    /\ CASE workers[i].pc = "w_start" ->
              /\ WGoto(i, IF is_cancelled(JobId) THEN "finished" ELSE "w_proc")
              /\ UNCHANGED <<storeVars, files>>
         [] workers[i].pc = "w_proc" ->
              /\ update_chunk(JobId, i, [state |-> "processing", started_at |-> Now,
                                         finished_at |-> 0, last_error_code |-> 0,
                                         last_error_message |-> None, llm_model |-> Model])
              /\ \E blank \in BOOLEAN :
                    workers' = [workers EXCEPT ![i].blank = blank,
                                               ![i].pc = IF blank THEN "w_blank" ELSE "w_try"]
              /\ UNCHANGED files
         [] workers[i].pc = "w_blank" ->
              \* _is_whitespace_only(pre): the chunk is copied to out/i
              /\ files' = files \cup {<<"out", i>>}
              /\ WGoto(i, "w_done")
              /\ UNCHANGED storeVars
         [] workers[i].pc = "w_try" ->
              \* _raise_if_cancelled, then execute()
              /\ UNCHANGED <<storeVars, files>>
              /\ IF is_cancelled(JobId)
                 THEN workers' = [workers EXCEPT ![i].pc = "w_exc", ![i].code = 499]
                 ELSE \E o \in Outcomes :
                        IF o = "ok" THEN WGoto(i, "w_post")
                        ELSE IF o = "fatal"
                        THEN workers' = [workers EXCEPT ![i].pc = "w_exc", ![i].code = 400]
                        ELSE /\ HasJob /\ Job.last_retry_count < MaxRetryCount
                             /\ workers' = [workers EXCEPT
                                    ![i].code = 500,
                                    ![i].pc = IF workers[i].i < _DEFAULT_MAX_RETRIES
                                              THEN "w_rc" ELSE "w_exc"]
         [] workers[i].pc = "w_rc" ->
              /\ IF is_cancelled(JobId)
                 THEN workers' = [workers EXCEPT ![i].pc = "w_exc", ![i].code = 499]
                 ELSE WGoto(i, "w_retry1")
              /\ UNCHANGED <<storeVars, files>>
         [] workers[i].pc = "w_retry1" ->
              /\ update_chunk(JobId, i, [state |-> "retrying"])
              /\ WGoto(i, "w_retry2")
              /\ UNCHANGED files
         [] workers[i].pc = "w_retry2" ->
              /\ add_retry(JobId, i, 1, workers[i].code, "err")
              /\ workers' = [workers EXCEPT ![i].pc = "w_try", ![i].i = @ + 1]
              /\ UNCHANGED files
         [] workers[i].pc = "w_post" ->
              \* is_cancelled, _validate_llm_output, out/i written atomically
              /\ UNCHANGED storeVars
              /\ IF is_cancelled(JobId)
                 THEN WGoto(i, "finished") /\ UNCHANGED files
                 ELSE \E valid \in BOOLEAN :
                        IF valid
                        THEN WGoto(i, "w_done") /\ files' = files \cup {<<"out", i>>}
                        ELSE /\ workers' = [workers EXCEPT ![i].pc = "w_exc", ![i].code = 0]
                             /\ UNCHANGED files
         [] workers[i].pc = "w_done" ->
              /\ update_chunk(JobId, i, [state |-> "done", finished_at |-> Now])
              /\ WGoto(i, "w_stat")
              /\ UNCHANGED files
         [] workers[i].pc = "w_stat" ->
              /\ add_stat(JobId, IF workers[i].blank THEN "llm_skipped_blank_chunks"
                                  ELSE "llm_chunks")
              /\ WGoto(i, "finished")
              /\ UNCHANGED files
         [] workers[i].pc = "w_exc" ->
              /\ WGoto(i, IF is_cancelled(JobId) THEN "finished" ELSE "w_err")
              /\ UNCHANGED <<storeVars, files>>
         [] workers[i].pc = "w_err" ->
              /\ update_chunk(JobId, i, [state |-> "error", finished_at |-> Now,
                                         last_error_code |-> workers[i].code,
                                         last_error_message |-> "err"])
              /\ WGoto(i, "finished")
              /\ UNCHANGED files

\* ---------------------------------------------------------------- merge
OutFiles(total) == {<<"out", i>> : i \in 1..total}

merge_text_chunks_to_path_tmp_only(fs) == fs \cup {<<"tmp", 0>>}

\* merge_text_chunks_to_path: the text goes to a temp file that is then renamed
\* over output_path, so output_path only ever holds a complete file.
merge_text_chunks_to_path(fs) == fs \cup {<<"output", 0>>}

merge_outputs ==
    /\ task.fn = "merge_outputs"
    /\ task.pc \in {"get", "empty", "err_p", "err_m", "run", "merge", "done", "cleanup", "exc"}
    /\ UNCHANGED <<poolVars, clock, heap, call, post, io, workers, api>>
    /\ CASE task.pc = "get" ->
              /\ UNCHANGED <<storeVars, files>>
              /\ IF JobGone THEN Goto("ret")
                 ELSE LET chunks == Job.chunk_statuses
                      IN task' = [task EXCEPT
                            !.total = Len(chunks),
                            !.pc = IF chunks = <<>> THEN "empty"
                                   ELSE IF \E i \in Indices(Job) : chunks[i].state = "error"
                                   THEN "err_p"
                                   ELSE IF \E i \in Indices(Job) : chunks[i].state # "done"
                                   THEN "err_m"
                                   ELSE "run"]
         [] task.pc = "empty" ->
              /\ update(JobId, [state |-> "error", finished_at |-> Now,
                                error |-> "job has no chunk statuses"])
              /\ Goto("ret")
              /\ UNCHANGED files
         [] task.pc = "err_p" ->
              /\ update(JobId, [state |-> "error", phase |-> "process", finished_at |-> Now,
                                error |-> "cannot merge: chunks failed"])
              /\ Goto("ret")
              /\ UNCHANGED files
         [] task.pc = "err_m" ->
              /\ update(JobId, [state |-> "error", phase |-> "merge", finished_at |-> Now,
                                error |-> "cannot merge: chunks not complete"])
              /\ Goto("ret")
              /\ UNCHANGED files
         [] task.pc = "run" ->
              /\ update(JobId, [state |-> "running", phase |-> "merge",
                                finished_at |-> 0, error |-> None])
              /\ Goto("merge")
              /\ UNCHANGED files
         [] task.pc = "merge" ->
              \* _merge_chunk_outputs reads out/0..total-1 and, like the indent pass,
              \* writes a temp file and renames it over output_path
              /\ IF OutFiles(task.total) \subseteq files
                 THEN files' = merge_text_chunks_to_path(files) /\ Goto("done")
                 ELSE UNCHANGED files /\ Goto("exc")
              /\ UNCHANGED storeVars
         [] task.pc = "done" ->
              /\ update(JobId, [state |-> "done", phase |-> "done", finished_at |-> Now,
                                done_chunks |-> task.total])
              /\ Goto("cleanup")
              /\ UNCHANGED files
         [] task.pc = "cleanup" ->
              /\ \E do_cleanup \in BOOLEAN :
                    IF do_cleanup
                    THEN /\ files' = {f \in files : f[1] # "out"}
                         /\ add_stat(JobId, "cleanup_work_dir")
                    ELSE /\ UNCHANGED files
                         /\ add_stat(JobId, "cleanup_work_dir_skipped")
              /\ Goto("ret")
         [] task.pc = "exc" ->
              /\ IF is_cancelled(JobId)
                 THEN update(JobId, [state |-> "cancelled", finished_at |-> Now])
                 ELSE update(JobId, [state |-> "error", phase |-> "merge", finished_at |-> Now,
                                     error |-> "exception"])
              /\ Goto("ret")
              /\ UNCHANGED files

\* ----------------------------------------------------- request handlers
IdleApi ==
    [op |-> "none", pc |-> "idle", k |-> 0, failed |-> <<>>, prev |-> None,
     fin |-> 0, err |-> None, served |-> 0]

\* A request is accepted while the handler is idle; served counts them.
ApiIdle == api.pc = "idle" /\ api.served < MaxRequests
ApiStart(op, pc) == [IdleApi EXCEPT !.op = op, !.pc = pc, !.served = api.served + 1]
ApiGoto(pc) == api' = [api EXCEPT !.pc = pc]
ApiReturn == api' = [IdleApi EXCEPT !.served = api.served]
ApiFrame == UNCHANGED <<files, poolVars, clock, heap, call, post, io, task, workers>>

\* _JobCommandService.submit_background: submit, or on_submit_failure and 409.
submit_background(fn, rollback) ==
    IF SubmitOk(JobId)
    THEN /\ submit(JobId, fn)
         /\ ApiReturn
         /\ UNCHANGED <<storeVars, files, workers>>
    ELSE /\ ApiGoto(rollback)
         /\ UNCHANGED <<storeVars, files, poolVars, clock, heap, call, post, io, task, workers>>

\* POST /api/v1/jobs: prepare_new_job (create, update), queue_validate_run
\* (update, submit run_job).  The job id is a fresh uuid.
create_job ==
    /\ ApiIdle /\ ~HasJob /\ clock = 0
    /\ LET st == [JobStatus(0) EXCEPT !.output_path = "output", !.work_dir = "work_dir",
                                      !.last_llm_model = Model]
       IN /\ _jobs' = [j \in {JobId} |-> st]
          /\ disk' = [j \in {JobId} |-> _job_to_dict(_snapshot_job(JobStatus(0)))]
          /\ _persist_dirty_since' = _persist_dirty_since \cup {JobId}
    /\ submit(JobId, "run_job")
    /\ api' = [api EXCEPT !.served = @ + 1]
    /\ UNCHANGED <<_cancelled, _paused, files, workers>>

pause_job ==
    /\ api.op \in {"none", "pause_job"}
    /\ CASE api.pc = "idle" ->
              /\ ApiIdle /\ HasJob /\ Job.phase = "process"
              /\ api' = ApiStart("pause_job", "pause")
              /\ UNCHANGED storeVars
         [] api.pc = "pause" -> pause(JobId) /\ ApiReturn
    /\ ApiFrame

resume_job ==
    /\ api.op \in {"none", "resume_job"}
    /\ CASE api.pc = "idle" ->
              /\ ApiIdle /\ HasJob /\ Job.state = "paused" /\ Job.phase \notin {"merge", "done"}
              /\ api' = [ApiStart("resume_job", "resume") EXCEPT
                                        !.prev = Job.last_llm_model,
                                        !.k = IF Job.phase = "validate" THEN 0 ELSE 1]
              /\ UNCHANGED storeVars /\ ApiFrame
         [] api.pc = "resume" ->
              /\ IF ResumeOk(JobId) THEN ApiGoto("upd") ELSE ApiReturn
              /\ resume(JobId) /\ ApiFrame
         [] api.pc = "upd" ->
              /\ update(JobId, [last_llm_model |-> Model])
              /\ ApiGoto("submit") /\ ApiFrame
         [] api.pc = "submit" ->
              submit_background(IF api.k = 0 THEN "run_job" ELSE "resume_paused_job", "rb1")
         [] api.pc = "rb1" ->
              pause(JobId) /\ ApiGoto("rb2") /\ ApiFrame
         [] api.pc = "rb2" ->
              update(JobId, [last_llm_model |-> api.prev]) /\ ApiReturn /\ ApiFrame

retry_failed ==
    /\ api.op \in {"none", "retry_failed"}
    /\ CASE api.pc = "idle" ->
              /\ ApiIdle /\ HasJob /\ ~is_cancelled(JobId) /\ Job.state = "error"
              /\ SelectIdx(Job.chunk_statuses, {"error"}, 1) # <<>>
              /\ api' = [ApiStart("retry_failed", "upd") EXCEPT
                                        !.failed = SelectIdx(Job.chunk_statuses, {"error"}, 1),
                                        !.prev = Job.last_llm_model,
                                        !.fin = Job.finished_at, !.err = Job.error]
              /\ UNCHANGED storeVars /\ ApiFrame
         [] api.pc = "upd" ->
              /\ update(JobId, [state |-> "queued", phase |-> "process", finished_at |-> 0,
                                error |-> None, last_llm_model |-> Model])
              /\ api' = [api EXCEPT !.pc = "chunks", !.k = 1] /\ ApiFrame
         [] api.pc = "chunks" ->
              /\ update_chunk(JobId, api.failed[api.k],
                              [state |-> "pending", started_at |-> 0, finished_at |-> 0])
              /\ api' = IF api.k = Len(api.failed) THEN [api EXCEPT !.pc = "submit"]
                        ELSE [api EXCEPT !.k = @ + 1]
              /\ ApiFrame
         [] api.pc = "submit" ->
              submit_background("retry_failed_chunks", "rb1")
         [] api.pc = "rb1" ->
              /\ update(JobId, [state |-> "error", finished_at |-> api.fin, error |-> api.err,
                                last_llm_model |-> api.prev])
              /\ api' = [api EXCEPT !.pc = "rb2", !.k = 1] /\ ApiFrame
         [] api.pc = "rb2" ->
              /\ update_chunk(JobId, api.failed[api.k], [state |-> "error"])
              /\ IF api.k = Len(api.failed) THEN ApiReturn
                 ELSE api' = [api EXCEPT !.k = @ + 1]
              /\ ApiFrame

AllDone(st) ==
    st.chunk_statuses # <<>> /\ \A i \in Indices(st) : st.chunk_statuses[i].state = "done"

MergeReady_anyphase(st) == st.state = "paused" /\ AllDone(st)

\* The admission checks of merge_job on the snapshot it read.
MergeReady(st) == st.state = "paused" /\ st.phase = "merge" /\ AllDone(st)

merge_job ==
    /\ api.op \in {"none", "merge_job"}
    /\ CASE api.pc = "idle" ->
              /\ ApiIdle /\ HasJob /\ ~is_cancelled(JobId) /\ MergeReady(Job)
              /\ api' = ApiStart("merge_job", "resume")
              /\ UNCHANGED storeVars /\ ApiFrame
         [] api.pc = "resume" ->
              /\ IF ResumeOk(JobId) THEN ApiGoto("submit") ELSE ApiReturn
              /\ resume(JobId) /\ ApiFrame
         [] api.pc = "submit" -> submit_background("merge_outputs", "rb1")
         [] api.pc = "rb1" -> pause(JobId) /\ ApiReturn /\ ApiFrame

\* add_done_callback(job_id, cb): cb runs at once when the id is untracked or
\* its future has already finished, else after the future's callbacks.
reset_job ==
    /\ api.op \in {"none", "reset_job"}
    /\ UNCHANGED <<_in_flight, fut, live, clock, heap, call, post, io, task, workers>>
    /\ CASE api.pc = "idle" ->
              /\ ApiIdle /\ HasJob
              /\ api' = ApiStart("reset_job", "cancel")
              /\ UNCHANGED <<storeVars, files, done_cbs>>
         [] api.pc = "cancel" ->
              cancel(JobId) /\ ApiGoto("cb") /\ UNCHANGED <<files, done_cbs>>
         [] api.pc = "cb" ->
              /\ ApiReturn
              /\ IF JobId \notin _in_flight \/ fut = "finished"
                 THEN _cleanup_and_delete /\ UNCHANGED done_cbs
                 ELSE /\ done_cbs' = done_cbs \cup {"_wrap"}
                      /\ UNCHANGED <<storeVars, files>>

cleanup_debug ==
    /\ api.op \in {"none", "cleanup_debug"}
    /\ UNCHANGED <<poolVars, clock, heap, call, post, io, task, workers>>
    /\ CASE api.pc = "idle" ->
              /\ ApiIdle /\ HasJob /\ Job.state \notin {"queued", "running", "cancelled"}
              /\ api' = ApiStart("cleanup_debug", "rm")
              /\ UNCHANGED <<storeVars, files>>
         [] api.pc = "rm" ->
              \* _cleanup_job_dir, _cleanup_input_cache, _cleanup_job_state
              /\ files' = {f \in files : f[1] = "output"}
              /\ disk' = [j \in DOMAIN disk \ {JobId} |-> disk[j]]
              /\ UNCHANGED <<_jobs, _cancelled, _paused, _persist_dirty_since>>
              /\ ApiGoto("delete")
         [] api.pc = "delete" ->
              delete(JobId) /\ ApiReturn /\ UNCHANGED files

\* POST /api/jobs/cancel of the legacy server: GLOBAL_JOBS.cancel(job_id).
cancel_job ==
    /\ ApiIdle /\ HasJob
    /\ cancel(JobId)
    /\ api' = [api EXCEPT !.served = @ + 1]
    /\ UNCHANGED <<files, poolVars, clock, heap, call, post, io, task, workers>>

\* _persist_loop: a dirty job that is due is flushed.
_persist_loop ==
    /\ JobId \in _persist_dirty_since
    /\ FlushNow(_jobs, JobId)
    /\ UNCHANGED <<_jobs, _cancelled, _paused, files, poolVars, clock, heap, call, post, io, task, workers, api>>

\* ------------------------------------------------------- specification
Init ==
    /\ _jobs = <<>>
    /\ _cancelled = {}
    /\ _paused = {}
    /\ _persist_dirty_since = {}
    /\ disk = <<>>
    /\ files = {}
    /\ _in_flight = {}
    /\ fut = "none"
    /\ live = 0
    /\ done_cbs = {}
    /\ clock = 0
    /\ task = IdleTask
    /\ workers = [i \in 1..NChunks |-> IdleWorker]
    /\ api = IdleApi
    /\ heap = EmptyHeap
    /\ call = IdleCall
    /\ post = IdlePost
    /\ io = IdleIo

Next ==
    \/ create_job
    \/ pause_job
    \/ resume_job
    \/ retry_failed
    \/ merge_job
    \/ reset_job
    \/ cleanup_debug
    \/ cancel_job
    \/ run_job
    \/ resume_paused_job
    \/ retry_failed_chunks
    \/ _run_llm_for_indices
    \/ ProcessAfter
    \/ _post_llm_deterministic_pass
    \/ _finalize_processing
    \/ merge_outputs
    \/ \E i \in 1..NChunks : _llm_worker(i)
    \/ TaskReturn
    \/ _done
    \/ _wrap

Spec == Init /\ [][Next]_vars

\* ------------------------------------------- state file round trip
\* A process restart: create_app's lifespan calls load_persisted_jobs() on a
\* fresh store and a fresh pool.  Every state file is parsed and healed, the
\* cancelled and paused flags are rebuilt from the healed state.  The versions
\* written by this program need no rewrite.
load_persisted_jobs ==
    LET loaded == [j \in DOMAIN disk |-> _heal_loaded_job(_job_from_dict(disk[j]))]
    IN /\ _jobs' = loaded
       /\ _cancelled' = {j \in DOMAIN disk : loaded[j].state = "cancelled"}
       /\ _paused' = {j \in DOMAIN disk : loaded[j].state = "paused"}
       /\ _persist_dirty_since' = {}
       /\ _in_flight' = {} /\ fut' = "none" /\ live' = 0 /\ done_cbs' = {}
       /\ clock' = Tick
       /\ UNCHANGED <<heap, call, post, io>>
       /\ task' = IdleTask
       /\ workers' = [i \in 1..NChunks |-> IdleWorker]
       /\ api' = [IdleApi EXCEPT !.served = api.served]
       /\ UNCHANGED <<disk, files>>

\* The model names a request can carry: LLMOptions.model defaults to "".
Models == {"", Model}

\* A chunk record as the workers leave it in each state.
MkChunk(s, m) ==
    CASE s = "pending"    -> ChunkStatus("pending", m)
      [] s = "processing" -> [ChunkStatus("processing", m) EXCEPT !.started_at = 1]
      [] s = "retrying"   -> [ChunkStatus("retrying", m) EXCEPT !.started_at = 1]
      [] s = "done"       -> [ChunkStatus("done", m) EXCEPT !.started_at = 1, !.finished_at = 1]
      [] s = "error"      -> [ChunkStatus("error", m) EXCEPT !.started_at = 1, !.finished_at = 1,
                                !.last_error_code = 400, !.last_error_message = "err"]

MkJob(state, phase, cstates, m, done_chunks) ==
    [JobStatus(Len(cstates)) EXCEPT
        !.state = state, !.phase = phase,
        !.started_at = IF state = "queued" /\ cstates = <<>> THEN 0 ELSE 1,
        !.finished_at = IF state \in Terminal THEN 1 ELSE 0,
        !.chunk_statuses = [i \in 1..Len(cstates) |-> MkChunk(cstates[i], m)],
        !.done_chunks = done_chunks,
        !.last_llm_model = m,
        !.stats = IF cstates = <<>> \/ phase = "validate" THEN {}
                  ELSE IF phase = "process" /\ state # "error" THEN {"rules"}
                  ELSE IF \E i \in 1..Len(cstates) : cstates[i] = "done"
                       THEN {"rules", "post_rules", "llm_chunks"}
                       ELSE {"rules", "post_rules"},
        !.error = IF state = "error" THEN "some chunks failed" ELSE None,
        !.output_path = "output", !.work_dir = "work_dir"]

\* The (state, phase) pairs the job functions write for a given chunk list.
StatePhases(cstates) ==
    LET S == {cstates[i] : i \in 1..Len(cstates)}
    IN IF cstates = <<>>
       THEN {<<"queued", "validate">>, <<"running", "validate">>,
             <<"cancelled", "validate">>}
       ELSE (IF S = {"pending"}
             THEN {<<"running", "validate">>, <<"cancelled", "validate">>} ELSE {})
            \cup {<<"running", "process">>, <<"paused", "process">>, <<"queued", "process">>}
            \cup (IF S \cap {"processing", "retrying"} = {}
                  THEN {<<"cancelled", "process">>} ELSE {})
            \cup (IF "error" \in S /\ S \subseteq {"done", "error"}
                  THEN {<<"error", "process">>} ELSE {})
            \cup (IF S = {"done"}
                  THEN {<<"paused", "merge">>, <<"queued", "merge">>, <<"running", "merge">>,
                        <<"cancelled", "merge">>, <<"done", "done">>}
                  ELSE {})

\* Jobs as update_chunk counts them, and the paused jobs _finalize_processing
\* marked ready to merge (done_chunks = total_chunks) before their chunks ran.
PersistInputs ==
    {MkJob(x[2][1], x[2][2], x[1], x[3], CountDone([i \in 1..Len(x[1]) |-> [state |-> x[1][i]]])) :
        x \in {y \in (({<<>>} \cup [1..NChunks -> ChunkStates])
                      \X (JobStates \X _JOB_PHASES) \X Models) :
                 <<y[2][1], y[2][2]>> \in StatePhases(y[1])}}
    \cup {MkJob("paused", "merge", cstates, m, Len(cstates)) :
            cstates \in [1..NChunks -> {"pending"}], m \in Models}

\* A store holding one job, not yet flushed, and nothing running.
PersistInit ==
    /\ \E st \in PersistInputs : _jobs = [j \in {JobId} |-> st]
    /\ _cancelled = {j \in DOMAIN _jobs : _jobs[j].state = "cancelled"}
    /\ _paused = {}
    /\ _persist_dirty_since = {JobId}
    /\ disk = <<>>
    /\ files = {}
    /\ _in_flight = {}
    /\ fut = "none"
    /\ live = 0
    /\ done_cbs = {}
    /\ clock = 1
    /\ task = IdleTask
    /\ workers = [i \in 1..NChunks |-> IdleWorker]
    /\ api = IdleApi
    /\ heap = EmptyHeap
    /\ call = IdleCall
    /\ post = IdlePost
    /\ io = IdleIo

PersistNext ==
    \/ _persist_loop
    \/ load_persisted_jobs

PersistSpec == PersistInit /\ [][PersistNext]_vars

\* ------------------------------------------------ snapshots and aliasing
\* A JobStatus object holds its scalar fields and the ids of its stats dict
\* and of its chunk list; a list holds the ids of its ChunkStatus objects.
Deref(objs, r) ==
    LET o == objs[r]
        lst == objs[o.chunk_statuses]
    IN [o EXCEPT !.stats = objs[o.stats],
                 !.chunk_statuses = [i \in 1..Len(lst) |-> objs[lst[i]]]]

\* A new object graph for the job value st; the JobStatus object is the last.
NewJob(objs, st) ==
    LET n == Len(objs)
        k == Len(st.chunk_statuses)
    IN objs \o st.chunk_statuses \o <<[i \in 1..k |-> n + i]>> \o <<st.stats>>
            \o <<[st EXCEPT !.stats = n + k + 2, !.chunk_statuses = n + k + 1]>>

\* A copy that builds a new JobStatus around the same dict and list objects.
CopyJob_shallow(objs, r) == objs \o <<objs[r]>>

\* _snapshot_job(st): a new JobStatus with the scalar fields of st,
\* dict(st.stats), and a new list of _snapshot_chunk(c), each a new
\* ChunkStatus with the fields of c.  The new JobStatus is the last object.
CopyJob(objs, r) ==
    LET o == objs[r]
        lst == objs[o.chunk_statuses]
        n == Len(objs)
        k == Len(lst)
    IN objs \o [i \in 1..k |-> objs[lst[i]]] \o <<[i \in 1..k |-> n + i]>>
            \o <<objs[o.stats]>>
            \o <<[o EXCEPT !.stats = n + k + 2, !.chunk_statuses = n + k + 1]>>

\* The store's objects after a mutation in place (setattr on the JobStatus
\* and on its ChunkStatus objects, item assignment on the stats dict) that
\* leaves the job with the value st.
MutateInPlace(objs, r, st) ==
    LET o == objs[r]
        lst == objs[o.chunk_statuses]
    IN [id \in 1..Len(objs) |->
          IF id = r THEN [st EXCEPT !.stats = o.stats, !.chunk_statuses = o.chunk_statuses]
          ELSE IF id = o.stats THEN st.stats
          ELSE IF \E i \in 1..Len(lst) : lst[i] = id
               THEN st.chunk_statuses[CHOOSE i \in 1..Len(lst) : lst[i] = id]
               ELSE objs[id]]

\* init_chunks binds st.chunk_statuses to a new list of new ChunkStatus
\* objects; the old list and its records are left as they are.
RebindChunks(objs, r, st) ==
    LET n == Len(objs)
        k == Len(st.chunk_statuses)
    IN [id \in 1..n |->
          IF id = r THEN [st EXCEPT !.stats = objs[r].stats, !.chunk_statuses = n + k + 1]
          ELSE objs[id]]
       \o st.chunk_statuses \o <<[i \in 1..k |-> n + i]>>

\* The heap after a store call that left _jobs as jobsAfter.
HeapAfter(jobsAfter, rebind) ==
    IF heap.root = 0 THEN heap
    ELSE IF JobId \notin DOMAIN jobsAfter THEN [heap EXCEPT !.root = 0]
    ELSE [heap EXCEPT !.objs = IF rebind
                                THEN RebindChunks(heap.objs, heap.root, jobsAfter[JobId])
                                ELSE MutateInPlace(heap.objs, heap.root, jobsAfter[JobId])]

SnapFrame ==
    /\ api.served < MaxRequests
    /\ api' = [api EXCEPT !.served = @ + 1]
    /\ UNCHANGED <<files, poolVars, clock, task, workers, call, post, io>>

\* st = GLOBAL_JOBS.get(job_id): the caller keeps the returned object.
get ==
    /\ SnapFrame /\ heap.root # 0
    /\ LET objs2 == CopyJob(heap.objs, heap.root)
       IN heap' = [heap EXCEPT !.objs = objs2, !.held = Len(objs2),
                               !.seen = Deref(objs2, Len(objs2))]
    /\ UNCHANGED storeVars

UpdateInputs ==
    {[state |-> "running", phase |-> "process"], [last_llm_model |-> ""],
     [state |-> "error", finished_at |-> Now, error |-> "some chunks failed"]}

ChunkInputs ==
    {[state |-> "done", finished_at |-> Now],
     [state |-> "processing", started_at |-> Now, llm_model |-> ""]}

store_update ==
    /\ SnapFrame
    /\ \E kw \in UpdateInputs : update(JobId, kw)
    /\ heap' = HeapAfter(_jobs', FALSE)

store_init_chunks ==
    /\ SnapFrame
    /\ init_chunks(JobId, NChunks, Model)
    /\ heap' = HeapAfter(_jobs', TRUE)

store_update_chunk ==
    /\ SnapFrame
    /\ \E i \in 1..NChunks, kw \in ChunkInputs : update_chunk(JobId, i, kw)
    /\ heap' = HeapAfter(_jobs', FALSE)

store_add_retry ==
    /\ SnapFrame
    /\ HasJob /\ Job.last_retry_count < MaxRetryCount
    /\ \E i \in 1..NChunks : add_retry(JobId, i, 1, 500, "err")
    /\ heap' = HeapAfter(_jobs', FALSE)

store_add_stat ==
    /\ SnapFrame
    /\ add_stat(JobId, "llm_chunks")
    /\ heap' = HeapAfter(_jobs', FALSE)

store_cancel ==
    /\ SnapFrame /\ cancel(JobId) /\ heap' = HeapAfter(_jobs', FALSE)

store_pause ==
    /\ SnapFrame /\ pause(JobId) /\ heap' = HeapAfter(_jobs', FALSE)

store_resume ==
    /\ SnapFrame /\ resume(JobId) /\ heap' = HeapAfter(_jobs', FALSE)

store_delete ==
    /\ SnapFrame /\ HasJob /\ delete(JobId) /\ heap' = HeapAfter(_jobs', FALSE)

SnapInputs ==
    {MkJob("queued", "validate", <<>>, Model, 0),
     MkJob("running", "process", [i \in 1..NChunks |-> "pending"], Model, 0),
     MkJob("running", "process",
           [i \in 1..NChunks |-> IF i = 1 THEN "done" ELSE "retrying"], Model, 1)}

\* A store holding one job; nobody holds a snapshot yet.
SnapInit ==
    /\ \E st \in SnapInputs :
          /\ _jobs = [j \in {JobId} |-> st]
          /\ LET objs == NewJob(<<>>, st)
             IN heap = [objs |-> objs, root |-> Len(objs), held |-> 0, seen |-> None]
    /\ _cancelled = {}
    /\ _paused = {}
    /\ _persist_dirty_since = {JobId}
    /\ disk = <<>>
    /\ files = {}
    /\ _in_flight = {}
    /\ fut = "none"
    /\ live = 0
    /\ done_cbs = {}
    /\ clock = 1
    /\ task = IdleTask
    /\ workers = [i \in 1..NChunks |-> IdleWorker]
    /\ api = IdleApi
    /\ call = IdleCall
    /\ post = IdlePost
    /\ io = IdleIo

SnapNext ==
    \/ get
    \/ store_update
    \/ store_init_chunks
    \/ store_update_chunk
    \/ store_add_retry
    \/ store_add_stat
    \/ store_cancel
    \/ store_pause
    \/ store_resume
    \/ store_delete

SnapSpec == SnapInit /\ [][SnapNext]_vars

\* ------------------------------------------- the resilient LLM call
\* One chunk worker from its call of call_llm_text_resilient_with_meta_and_raw
\* to its return, with cancel() as the only other thread.  The chunk is
\* RetryChunk of a job in running/process.
_RETRYABLE_STATUS == {408, 409, 425, 429, 500, 502, 503, 504}
_DEFAULT_RETRY_BACKOFF_SECONDS == 1
_CANCELLED_STATUS_CODE == 499

attempts == Max(0, _DEFAULT_MAX_RETRIES) + 1

NotRetryable_never(code) == FALSE

\* e.status_code is not None and e.status_code not in _RETRYABLE_STATUS
NotRetryable(code) == code # 0 /\ code \notin _RETRYABLE_STATUS

Backoff_flat(i) == _DEFAULT_RETRY_BACKOFF_SECONDS

\* max(0.0, float(_DEFAULT_RETRY_BACKOFF_SECONDS)) * (2**i), in seconds
Backoff(i) == Max(0, _DEFAULT_RETRY_BACKOFF_SECONDS) * 2^i

_raise_if_cancelled_never(job_id) == FALSE

\* _raise_if_cancelled(should_stop) raises when should_stop(), which is
\* is_cancelled(job_id), holds.
_raise_if_cancelled(job_id) == is_cancelled(job_id)

RetryChunk == 1
RetryFrame == UNCHANGED <<files, poolVars, clock, heap, post, io, task, workers, api>>
CallFrame == UNCHANGED <<poolVars, clock, heap, post, io, task, workers, api>>

\* What execute() can do: return a text, raise an LLMError with an HTTP status
\* or with none (0), raise another exception; while the job is cancelled the
\* stream reader raises the cancellation error.
ExecOutcomes ==
    {[kind |-> "ok", code |-> 0], [kind |-> "exception", code |-> 0]}
    \cup {[kind |-> "llm_error", code |-> c] : c \in _RETRYABLE_STATUS \cup {0, 400, 401, 404}}
    \cup (IF is_cancelled(JobId)
          THEN {[kind |-> "llm_error", code |-> _CANCELLED_STATUS_CODE]} ELSE {})

_run_with_retries ==
    /\ call.pc \in {"top", "execute", "check", "sleep", "asleep"}
    /\ RetryFrame /\ UNCHANGED storeVars
    /\ CASE call.pc = "top" ->
              call' = IF _raise_if_cancelled(JobId)
                      THEN [call EXCEPT !.pc = "except", !.raised = _CANCELLED_STATUS_CODE]
                      ELSE [call EXCEPT !.pc = "execute"]
         [] call.pc = "execute" ->
              \E o \in ExecOutcomes :
                 LET c1 == [call EXCEPT !.executed = Append(@, o),
                                        !.last_code = IF o.kind = "llm_error" THEN o.code ELSE @]
                 IN call' =
                      IF o.kind = "ok" THEN [c1 EXCEPT !.pc = "returned"]
                      ELSE IF o.kind = "llm_error" /\ NotRetryable(o.code)
                      THEN [c1 EXCEPT !.pc = "except", !.raised = o.code]
                      ELSE IF call.i < attempts - 1 THEN [c1 EXCEPT !.pc = "check"]
                      ELSE [c1 EXCEPT !.pc = "except", !.raised = c1.last_code]
         [] call.pc = "check" ->
              call' = IF _raise_if_cancelled(JobId)
                      THEN [call EXCEPT !.pc = "except", !.raised = _CANCELLED_STATUS_CODE]
                      ELSE [call EXCEPT !.pc = "on_retry"]
         [] call.pc = "sleep" ->
              call' = [call EXCEPT !.slept = Append(@, Backoff(call.i)), !.pc = "asleep"]
         [] call.pc = "asleep" ->
              call' = [call EXCEPT !.i = @ + 1, !.pc = "top"]

\* The callback _llm_worker passes to the call.
on_retry_uncounted ==
    /\ call.pc \in {"on_retry", "add_retry"}
    /\ RetryFrame
    /\ CASE call.pc = "on_retry" ->
              /\ update_chunk(JobId, RetryChunk, [state |-> "retrying"])
              /\ call' = [call EXCEPT !.on_retry = Append(@, call.i + 1), !.pc = "add_retry"]
         [] call.pc = "add_retry" ->
              /\ UNCHANGED storeVars
              /\ call' = [call EXCEPT !.pc = "sleep"]

on_retry ==
    /\ call.pc \in {"on_retry", "add_retry"}
    /\ RetryFrame
    /\ CASE call.pc = "on_retry" ->
              /\ update_chunk(JobId, RetryChunk, [state |-> "retrying"])
              /\ call' = [call EXCEPT !.on_retry = Append(@, call.i + 1), !.pc = "add_retry"]
         [] call.pc = "add_retry" ->
              /\ add_retry(JobId, RetryChunk, 1, call.last_code, "err")
              /\ call' = [call EXCEPT !.pc = "sleep"]

\* _llm_worker after the call returned a text.
llm_call_returned ==
    /\ call.pc \in {"returned", "w_done", "w_stat"}
    /\ CallFrame
    /\ CASE call.pc = "returned" ->
              /\ UNCHANGED storeVars
              /\ IF is_cancelled(JobId)
                 THEN call' = [call EXCEPT !.pc = "finished"] /\ UNCHANGED files
                 ELSE \E o \in {"valid", "invalid", "oserror"} :
                        \* resp/i written, _validate_llm_output, out/i written:
                        \* all pass, or the validation raises an LLMError
                        \* without status, or a write raises
                        IF o = "valid"
                        THEN /\ call' = [call EXCEPT !.pc = "w_done"]
                             /\ files' = files \cup {<<"out", RetryChunk>>}
                        ELSE /\ call' = IF o = "invalid"
                                        THEN [call EXCEPT !.pc = "except", !.raised = 0]
                                        ELSE [call EXCEPT !.pc = "except_other"]
                             /\ UNCHANGED files
         [] call.pc = "w_done" ->
              /\ update_chunk(JobId, RetryChunk, [state |-> "done", finished_at |-> Now])
              /\ call' = [call EXCEPT !.pc = "w_stat"]
              /\ UNCHANGED files
         [] call.pc = "w_stat" ->
              /\ add_stat(JobId, "llm_chunks")
              /\ call' = [call EXCEPT !.pc = "finished"]
              /\ UNCHANGED files

llm_call_raised_silent ==
    /\ call.pc \in {"except", "w_err", "except_other", "w_err_other"}
    /\ RetryFrame /\ UNCHANGED storeVars
    /\ call' = [call EXCEPT !.pc = "finished",
                            !.failed = IF call.pc \in {"except", "w_err"} THEN "llm" ELSE "other"]

\* _llm_worker's except branches: `except LLMError` records the status of the
\* error, `except Exception` only its message.
llm_call_raised ==
    /\ call.pc \in {"except", "w_err", "except_other", "w_err_other"}
    /\ RetryFrame
    /\ CASE call.pc = "except" ->
              /\ UNCHANGED storeVars
              /\ call' = [call EXCEPT !.failed = "llm",
                              !.pc = IF is_cancelled(JobId) THEN "finished" ELSE "w_err"]
         [] call.pc = "w_err" ->
              /\ update_chunk(JobId, RetryChunk,
                              [state |-> "error", finished_at |-> Now,
                               last_error_code |-> call.raised,
                               last_error_message |-> "err"])
              /\ call' = [call EXCEPT !.pc = "finished"]
         [] call.pc = "except_other" ->
              /\ UNCHANGED storeVars
              /\ call' = [call EXCEPT !.failed = "other",
                              !.pc = IF is_cancelled(JobId) THEN "finished" ELSE "w_err_other"]
         [] call.pc = "w_err_other" ->
              /\ update_chunk(JobId, RetryChunk,
                              [state |-> "error", finished_at |-> Now,
                               last_error_message |-> "err"])
              /\ call' = [call EXCEPT !.pc = "finished"]

\* cancel(job_id) from a request, while the worker is in the call.
cancel_during_call ==
    /\ call.pc \notin {"idle", "finished"} /\ ~is_cancelled(JobId)
    /\ cancel(JobId)
    /\ call' = [call EXCEPT !.stopped_asleep = (call.pc = "asleep")]
    /\ RetryFrame

\* The job as _llm_worker finds it after marking the chunk processing; the
\* chunk may carry retries of an earlier run.
RetryInputs ==
    {[MkJob("running", "process",
            [i \in 1..NChunks |-> IF i = RetryChunk THEN "processing" ELSE "pending"],
            Model, 0)
        EXCEPT !.last_retry_count = r, !.last_error_code = IF r = 0 THEN 0 ELSE 500,
               !.chunk_statuses[RetryChunk].retries = r] : r \in {0, 1}}

RetryInit ==
    /\ \E st \in RetryInputs :
          /\ _jobs = [j \in {JobId} |-> st]
          /\ disk = [j \in {JobId} |-> _job_to_dict(st)]
          /\ call = [IdleCall EXCEPT !.pc = "top",
                                     !.retries0 = st.chunk_statuses[RetryChunk].retries]
    /\ _cancelled = {}
    /\ _paused = {}
    /\ _persist_dirty_since = {}
    /\ files = {}
    /\ _in_flight = {JobId}
    /\ fut = "running"
    /\ live = 1
    /\ done_cbs = {}
    /\ clock = 1
    /\ task = IdleTask
    /\ workers = [i \in 1..NChunks |-> IdleWorker]
    /\ api = IdleApi
    /\ heap = EmptyHeap
    /\ post = IdlePost
    /\ io = IdleIo

RetryNext ==
    \/ _run_with_retries
    \/ on_retry
    \/ llm_call_returned
    \/ llm_call_raised
    \/ cancel_during_call

RetrySpec == RetryInit /\ [][RetryNext]_vars

\* The worker thread keeps running: each of its steps is eventually taken.
RetryLiveSpec ==
    RetrySpec /\ WF_vars(_run_with_retries) /\ WF_vars(on_retry)
              /\ WF_vars(llm_call_returned) /\ WF_vars(llm_call_raised)

\* ------------------------------------------------ done callbacks
\* The dispatcher with its callers: requests that submit a job function,
\* reset_job (cancel, then add_done_callback with its cleanup closure) and a
\* caller whose callback raises.  Requests are handled one at a time (the
\* handlers are coroutines without an await); the job function, _done and
\* _wrap run on pool threads.
Callbacks == {"_cleanup_and_delete", "raises"}

\* cb(): reset_job's closure removes the job and swallows its own exceptions;
\* the other callback does nothing but raise.
RunCb(cb) ==
    IF cb = "_cleanup_and_delete" THEN _cleanup_and_delete
    ELSE UNCHANGED <<storeVars, files>>

CbRaises(cb) == cb = "raises"

\* Future g has finished: a newer future exists (submit only replaces a future
\* that _done has untracked), or it is the current one and finished.
FutureDone(g) == g < clock \/ fut = "finished"

CbFrame == UNCHANGED <<heap, call, io, workers>>

\* A request whose handler submits a job function: admitted for a job that is
\* not cancelled; submit raises when the id is tracked, and the request fails.
cb_submit ==
    /\ ApiIdle /\ clock < MaxClock
    /\ HasJob /\ ~is_cancelled(JobId) /\ Job.state # "cancelled"
    /\ api' = [api EXCEPT !.served = @ + 1]
    /\ IF SubmitOk(JobId)
       THEN submit(JobId, "run_job") /\ UNCHANGED <<storeVars, files, workers>>
       ELSE UNCHANGED <<storeVars, files, poolVars, clock, task, post>> /\ CbFrame

\* The job function, reduced to what matters here: it writes into the job's
\* directory and returns.
job_function ==
    /\ task.pc \in {"get", "work"}
    /\ IF task.pc = "get"
       THEN task' = [task EXCEPT !.pc = "work"] /\ files' = files \cup {<<"out", 1>>}
       ELSE task' = [task EXCEPT !.pc = "ret"] /\ UNCHANGED files
    /\ UNCHANGED <<storeVars, poolVars, clock, api, post>> /\ CbFrame

\* reset_job up to its add_done_callback call.
cb_reset_job ==
    /\ api.pc \in {"idle", "cancel"}
    /\ UNCHANGED <<files, poolVars, clock, task>> /\ CbFrame
    /\ CASE api.pc = "idle" ->
              /\ ApiIdle /\ HasJob
              /\ api' = ApiStart("reset_job", "cancel")
              /\ UNCHANGED <<storeVars, post>>
         [] api.pc = "cancel" ->
              /\ cancel(JobId)
              /\ ApiGoto("lookup")
              /\ post' = [post EXCEPT !.cb = "_cleanup_and_delete", !.calls = @ + 1]

\* Another caller of add_done_callback, with a callback that raises.
cb_caller ==
    /\ ApiIdle
    /\ api' = ApiStart("caller", "lookup")
    /\ post' = [post EXCEPT !.cb = "raises", !.calls = @ + 1]
    /\ UNCHANGED <<storeVars, files, poolVars, clock, task>> /\ CbFrame

\* add_done_callback(job_id, cb): the future is read under _lock; without one
\* cb() is called bare; else _wrap is attached, and a finished future runs it
\* at once in the caller's thread.
add_done_callback ==
    /\ api.pc \in {"lookup", "act"}
    /\ UNCHANGED <<poolVars, clock, task>> /\ CbFrame
    /\ CASE api.pc = "lookup" ->
              /\ post' = [post EXCEPT !.got = IF JobId \in _in_flight THEN clock ELSE 0]
              /\ ApiGoto("act")
              /\ UNCHANGED <<storeVars, files>>
         [] api.pc = "act" ->
              /\ ApiReturn
              /\ IF post.got = 0
                 THEN /\ RunCb(post.cb)
                      /\ post' = [post EXCEPT !.cb = "none", !.ran = @ + 1,
                                    !.propagated = IF CbRaises(post.cb) THEN @ + 1 ELSE @]
                 ELSE IF FutureDone(post.got)
                 THEN /\ RunCb(post.cb)
                      /\ post' = [post EXCEPT !.cb = "none", !.got = 0, !.ran = @ + 1,
                                    !.logged = IF CbRaises(post.cb) THEN @ + 1 ELSE @]
                 ELSE /\ post' = [post EXCEPT !.cb = "none", !.got = 0,
                                    !.attached = @ + 1,
                                    !.pending = Append(@, [cb |-> post.cb, gen |-> post.got])]
                      /\ UNCHANGED <<storeVars, files>>

_wrap_cb_early ==
    /\ post.pending # <<>>
    /\ LET e == Head(post.pending)
       IN /\ RunCb(e.cb)
          /\ post' = [post EXCEPT !.pending = Tail(@), !.ran = @ + 1,
                                  !.logged = IF CbRaises(e.cb) THEN @ + 1 ELSE @]
    /\ UNCHANGED <<poolVars, clock, task, api>> /\ CbFrame

\* _wrap(_f), run by the pool thread once its future has finished, after the
\* callbacks attached before it: cb() inside try/except, the exception logged.
_wrap_cb ==
    /\ post.pending # <<>>
    /\ LET e == Head(post.pending)
       IN /\ FutureDone(e.gen)
          /\ e.gen = clock => "_done" \notin done_cbs
          /\ RunCb(e.cb)
          /\ post' = [post EXCEPT !.pending = Tail(@), !.ran = @ + 1,
                                  !.logged = IF CbRaises(e.cb) THEN @ + 1 ELSE @]
    /\ UNCHANGED <<poolVars, clock, task, api>> /\ CbFrame

\* A paused job with its state file, nothing in flight.
CallbackInit ==
    /\ LET st == MkJob("paused", "process", [i \in 1..NChunks |-> "pending"], Model, 0)
       IN /\ _jobs = [j \in {JobId} |-> st]
          /\ disk = [j \in {JobId} |-> _job_to_dict(st)]
    /\ _cancelled = {}
    /\ _paused = {JobId}
    /\ _persist_dirty_since = {}
    /\ files = {}
    /\ _in_flight = {}
    /\ fut = "none"
    /\ live = 0
    /\ done_cbs = {}
    /\ clock = 0
    /\ task = IdleTask
    /\ workers = [i \in 1..NChunks |-> IdleWorker]
    /\ api = IdleApi
    /\ heap = EmptyHeap
    /\ call = IdleCall
    /\ post = IdlePost
    /\ io = IdleIo

CallbackNext ==
    \/ cb_submit
    \/ job_function
    \/ TaskReturn
    \/ _done
    \/ cb_reset_job
    \/ cb_caller
    \/ add_done_callback
    \/ _wrap_cb

CallbackSpec == CallbackInit /\ [][CallbackNext]_vars

\* The pool threads and the handler in progress keep running.
CallbackLiveSpec ==
    CallbackSpec /\ WF_vars(job_function) /\ WF_vars(TaskReturn) /\ WF_vars(_done)
                 /\ WF_vars(add_done_callback) /\ WF_vars(_wrap_cb)

\* -------------------------------------------------- file writes
\* The three writers of final files, with the content of every file: the job
\* snapshot (_atomic_write_json), a pre/out/resp chunk file
\* (_atomic_write_text) and the merged output (merge_text_chunks_to_path).
\* A file's content is the sequence of the pieces written so far, each piece
\* tagged with the number of the write call it comes from; the complete
\* payload of call v is PieceCount pieces.  Names are <<path, 0>> for the
\* final file and <<path, v>> for the temp file of call v (a fresh uuid).
\* An abort (the process is killed) can come between any two steps.
PieceCount == 2
MaxVersions == 3
ReplaceAttempts == 10

\* The threads that write files: a request handler (it flushes snapshots) and
\* a pool thread (snapshots, chunk files, the merged output).
Writers == {"handler", "pool"}

Paths == {"state", "chunk", "output"}
WriterOf(path) ==
    CASE path = "state" -> "_atomic_write_json"
      [] path = "chunk" -> "_atomic_write_text"
      [] OTHER -> "merge_text_chunks_to_path"

Complete(v) == [i \in 1..PieceCount |-> v]
FinalPath(path) == <<path, 0>>

IdleWriter == [pc |-> "idle", path |-> "none", v |-> 0, attempt |-> 0]

TmpPath_inplace(w) == FinalPath(io.w[w].path)

\* tmp = path.with_suffix(path.suffix + f".{uuid.uuid4().hex}.tmp")
TmpPath(w) == <<io.w[w].path, io.w[w].v>>

IoFrame == UNCHANGED <<storeVars, files, poolVars, clock, task, workers, api, heap, call, post>>

WriterGoto(w, pc) == [io.w EXCEPT ![w].pc = pc]
Unlink(fs, name) == [n \in DOMAIN fs \ {name} |-> fs[n]]
Replace(fs, src, dst) ==
    [n \in (DOMAIN fs \ {src}) \cup {dst} |-> IF n = dst THEN fs[src] ELSE fs[n]]

\* A writer is called for one of the final files.
begin_write(w) ==
    /\ io.alive /\ io.w[w].pc = "idle" /\ io.version < MaxVersions
    /\ \E path \in Paths :
          io' = [io EXCEPT !.version = @ + 1,
                           !.w[w] = [pc |-> "open", path |-> path, v |-> io.version + 1,
                                     attempt |-> 0]]
    /\ IoFrame

\* tmp.write_text(...) / the writes of merge_text_chunks into the open temp
\* file: the file is created empty and grows piece by piece; the write (or,
\* in the merge, the read of the next chunk file) can fail with an exception,
\* which only _atomic_write_json follows with a cleanup.
tmp_write(w) ==
    /\ io.alive /\ io.w[w].pc \in {"open", "write"}
    /\ IF io.w[w].pc = "open"
       THEN io' = [io EXCEPT !.fs = [n \in DOMAIN io.fs \cup {TmpPath(w)} |->
                                       IF n = TmpPath(w) THEN <<>> ELSE io.fs[n]],
                             !.w = WriterGoto(w, "write")]
       ELSE \/ io' = [io EXCEPT !.fs[TmpPath(w)] = Append(@, io.w[w].v),
                                !.w = WriterGoto(w,
                                         IF Len(io.fs[TmpPath(w)]) + 1 = PieceCount
                                         THEN "replace" ELSE "write")]
            \/ io' = [io EXCEPT !.w = IF WriterOf(io.w[w].path) = "_atomic_write_json"
                                      THEN WriterGoto(w, "cleanup")
                                      ELSE [io.w EXCEPT ![w] = IdleWriter]]
    /\ IoFrame

\* tmp.replace(path): the rename puts the temp file's content under the final
\* name in one step.  _atomic_write_json tries again on PermissionError, up
\* to ReplaceAttempts times; for the other writers an exception ends the call.
tmp_replace(w) ==
    /\ io.alive /\ io.w[w].pc = "replace"
    /\ LET json == WriterOf(io.w[w].path) = "_atomic_write_json"
       IN \/ io' = [io EXCEPT !.fs = Replace(io.fs, TmpPath(w), FinalPath(io.w[w].path)),
                              !.w = IF json THEN WriterGoto(w, "cleanup")
                                    ELSE [io.w EXCEPT ![w] = IdleWriter]]
          \/ /\ json
             /\ io' = [io EXCEPT !.w = IF io.w[w].attempt >= ReplaceAttempts - 1
                                       THEN WriterGoto(w, "cleanup")
                                       ELSE [io.w EXCEPT ![w].attempt = @ + 1]]
          \/ /\ ~json
             /\ io' = [io EXCEPT !.w[w] = IdleWriter]
    /\ IoFrame

\* finally: tmp.unlink(missing_ok=True), of _atomic_write_json only.
tmp_unlink(w) ==
    /\ io.alive /\ io.w[w].pc = "cleanup"
    /\ io' = [io EXCEPT !.fs = Unlink(io.fs, TmpPath(w)),
                        !.w[w] = IdleWriter]
    /\ IoFrame

\* The process is killed: nothing runs any more, the files stay as they are.
abort ==
    /\ io.alive
    /\ io' = [io EXCEPT !.alive = FALSE]
    /\ IoFrame

AtomicInit ==
    /\ io = [pc |-> "write", alive |-> TRUE, version |-> 0, fs |-> <<>>,
             w |-> [w \in Writers |-> IdleWriter]]
    /\ _jobs = <<>>
    /\ disk = <<>>
    /\ _cancelled = {}
    /\ _paused = {}
    /\ _persist_dirty_since = {}
    /\ files = {}
    /\ _in_flight = {}
    /\ fut = "none"
    /\ live = 0
    /\ done_cbs = {}
    /\ clock = 0
    /\ task = IdleTask
    /\ workers = [i \in 1..NChunks |-> IdleWorker]
    /\ api = IdleApi
    /\ heap = EmptyHeap
    /\ call = IdleCall
    /\ post = IdlePost

AtomicNext ==
    \/ \E w \in Writers : begin_write(w)
    \/ \E w \in Writers : tmp_write(w)
    \/ \E w \in Writers : tmp_replace(w)
    \/ \E w \in Writers : tmp_unlink(w)
    \/ abort

AtomicSpec == AtomicInit /\ [][AtomicNext]_vars

\* ---------------------------------------------------------- merge
\* merge_text_chunks on texts over a small alphabet: a letter, a space, and
\* the two line-end characters.  A text is a sequence of characters.
MaxText == 3
Chars == {"a", "SP", "LF", "CR"}
Texts == UNION {[1..n -> Chars] : n \in 0..MaxText}

\* text.replace("\r\n", "\n").replace("\r", "\n")
RECURSIVE _normalize_newlines(_)
_normalize_newlines(text) ==
    IF text = <<>> THEN <<>>
    ELSE IF Head(text) # "CR" THEN <<Head(text)>> \o _normalize_newlines(Tail(text))
    ELSE IF Len(text) >= 2 /\ text[2] = "LF"
         THEN <<"LF">> \o _normalize_newlines(SubSeq(text, 3, Len(text)))
         ELSE <<"LF">> \o _normalize_newlines(Tail(text))

\* text.split("\n")
RECURSIVE Split(_)
Split(text) ==
    IF \A i \in DOMAIN text : text[i] # "LF" THEN <<text>>
    ELSE LET k == CHOOSE i \in DOMAIN text :
                      text[i] = "LF" /\ \A j \in 1..(i - 1) : text[j] # "LF"
         IN <<SubSeq(text, 1, k - 1)>> \o Split(SubSeq(text, k + 1, Len(text)))

EndsWith(text, c) == text # <<>> /\ text[Len(text)] = c

\* line.strip() == "" for a line without line ends
IsBlank(line) == \A i \in DOMAIN line : line[i] = "SP"

\* line.rstrip()
RECURSIVE rstrip(_)
rstrip(line) ==
    IF EndsWith(line, "SP") THEN rstrip(SubSeq(line, 1, Len(line) - 1)) ELSE line

_iter_normalized_lines_for_merge(text) ==
    LET t == _normalize_newlines(text)
        split == Split(t)
        lines == IF EndsWith(t, "LF") THEN SubSeq(split, 1, Len(split) - 1) ELSE split
    IN [j \in DOMAIN lines |-> IF IsBlank(lines[j]) THEN <<>> ELSE rstrip(lines[j])]

RECURSIVE WriteLines_unspaced(_, _, _, _, _)
WriteLines_unspaced(lines, j, bare_end, out, prev_nonblank) ==
    IF j > Len(lines) THEN [out |-> out, prev_nonblank |-> prev_nonblank]
    ELSE IF lines[j] = <<>>
    THEN WriteLines_unspaced(lines, j + 1, bare_end, Append(out, "LF"), FALSE)
    ELSE WriteLines_unspaced(lines, j + 1, bare_end,
                             IF bare_end /\ j = Len(lines) THEN out \o lines[j]
                             ELSE Append(out \o lines[j], "LF"),
                             TRUE)

\* The inner loop of merge_text_chunks from line j on: what the writer holds
\* and prev_nonblank after it.  bare_end is `is_last and not
\* keep_final_newline`.
RECURSIVE WriteLines(_, _, _, _, _)
WriteLines(lines, j, bare_end, out, prev_nonblank) ==
    IF j > Len(lines) THEN [out |-> out, prev_nonblank |-> prev_nonblank]
    ELSE IF lines[j] = <<>>
    THEN WriteLines(lines, j + 1, bare_end, Append(out, "LF"), FALSE)
    ELSE LET sep == IF prev_nonblank THEN Append(out, "LF") ELSE out
             written == sep \o lines[j]
         IN WriteLines(lines, j + 1, bare_end,
                       IF bare_end /\ j = Len(lines) THEN written
                       ELSE Append(written, "LF"),
                       TRUE)

\* One round of the outer loop: the next chunk, is_last as both callers pass
\* it (_merge_chunk_outputs, merge_text_parts).
merge_text_chunks ==
    /\ io.pc = "merge"
    /\ LET k == io.k + 1
           chunk_text == io.chunks[k]
           is_last == k = Len(io.chunks)
           keep_final_newline == EndsWith(chunk_text, "LF") \/ EndsWith(chunk_text, "CR")
           r == WriteLines(_iter_normalized_lines_for_merge(chunk_text), 1,
                           is_last /\ ~keep_final_newline, io.out, io.prev_nonblank)
       IN io' = [io EXCEPT !.k = k, !.out = r.out, !.prev_nonblank = r.prev_nonblank,
                           !.pc = IF is_last THEN "done" ELSE "merge"]
    /\ IoFrame

MergeInputs == UNION {[1..n -> Texts] : n \in 1..NChunks}

MergeInit ==
    /\ io \in {[pc |-> "merge", chunks |-> c, k |-> 0, out |-> <<>>,
                prev_nonblank |-> FALSE] : c \in MergeInputs}
    /\ _jobs = <<>>
    /\ disk = <<>>
    /\ _cancelled = {}
    /\ _paused = {}
    /\ _persist_dirty_since = {}
    /\ files = {}
    /\ _in_flight = {}
    /\ fut = "none"
    /\ live = 0
    /\ done_cbs = {}
    /\ clock = 0
    /\ task = IdleTask
    /\ workers = [i \in 1..NChunks |-> IdleWorker]
    /\ api = IdleApi
    /\ heap = EmptyHeap
    /\ call = IdleCall
    /\ post = IdlePost

MergeNext == merge_text_chunks

MergeSpec == MergeInit /\ [][MergeNext]_vars

\* ------------------------------------------------- restart mid-PROCESS
\* The process was killed while a PROCESS run was under way and is started
\* again: the store is empty, the state file holds the job as it was last
\* flushed (queued or running, phase process, each chunk done, pending,
\* processing or retrying, at least one of them not done), and out/ holds the
\* outputs of the done chunks.  load_persisted_jobs runs once, at start-up;
\* then the resume and merge requests and the job functions they start, with
\* LLM calls that succeed, possibly after retries.
MidProcess(st) ==
    /\ st.state \in {"queued", "running"} /\ st.phase = "process"
    /\ st.chunk_statuses # <<>>
    /\ \A i \in Indices(st) : st.chunk_statuses[i].state # "error"
    /\ ~AllDone(st)

RestartInputs == {st \in PersistInputs : MidProcess(st) /\ st.last_llm_model = Model}

RestartInit ==
    /\ \E st \in RestartInputs :
          /\ disk = [j \in {JobId} |-> _job_to_dict(st)]
          /\ files = {<<"out", i>> : i \in {k \in Indices(st) : st.chunk_statuses[k].state = "done"}}
    /\ _jobs = <<>>
    /\ _cancelled = {}
    /\ _paused = {}
    /\ _persist_dirty_since = {}
    /\ _in_flight = {}
    /\ fut = "none"
    /\ live = 0
    /\ done_cbs = {}
    /\ clock = 1
    /\ task = IdleTask
    /\ workers = [i \in 1..NChunks |-> IdleWorker]
    /\ api = IdleApi
    /\ heap = EmptyHeap
    /\ call = IdleCall
    /\ post = IdlePost
    /\ io = IdleIo

\* create_app's lifespan: the state files are loaded before any request.
startup == ~HasJob /\ JobId \in DOMAIN disk /\ load_persisted_jobs

\* A chunk worker step in which neither the LLM call nor the validation of
\* its output ends in an error.
llm_worker_succeeds(i) == _llm_worker(i) /\ workers'[i].pc # "w_exc"

RestartNext ==
    \/ startup
    \/ resume_job
    \/ merge_job
    \/ resume_paused_job
    \/ _run_llm_for_indices
    \/ ProcessAfter
    \/ _post_llm_deterministic_pass
    \/ _finalize_processing
    \/ merge_outputs
    \/ \E i \in 1..NChunks : llm_worker_succeeds(i)
    \/ TaskReturn
    \/ _done

RestartSpec == RestartInit /\ [][RestartNext]_vars

\* The pool threads run, and a request handler that has started goes on.
RestartLiveSpec ==
    /\ RestartSpec
    /\ WF_vars(resume_paused_job) /\ WF_vars(_run_llm_for_indices) /\ WF_vars(ProcessAfter)
    /\ WF_vars(_post_llm_deterministic_pass) /\ WF_vars(_finalize_processing)
    /\ WF_vars(merge_outputs) /\ WF_vars(TaskReturn) /\ WF_vars(_done)
    /\ \A i \in 1..NChunks : WF_vars(llm_worker_succeeds(i))
    /\ WF_vars(api.pc # "idle" /\ resume_job) /\ WF_vars(api.pc # "idle" /\ merge_job)

\* ------------------------------------------------- one scheduler run
\* _run_llm_for_indices called with an index list and an llm.max_concurrency
\* the request chose (LLMOptions accepts any int; 0 stands for the values
\* below 1), on a queued PROCESS job whose listed chunks were just reset to
\* pending, the others done; with the chunk workers, and pause and cancel
\* requests coming in.
IndexLists == {SelectIdx([i \in 1..NChunks |-> [state |-> IF i \in S THEN "pending" ELSE "done"]],
                         {"pending"}, 1) : S \in (SUBSET (1..NChunks)) \ {{}}}

SchedInit ==
    /\ \E indices \in IndexLists, cap \in 0..MaxConcurrency :
          LET In == {indices[k] : k \in 1..Len(indices)}
              cstates == [i \in 1..NChunks |-> IF i \in In THEN "pending" ELSE "done"]
              st == MkJob("queued", "process", cstates, Model, NChunks - Len(indices))
          IN /\ _jobs = [j \in {JobId} |-> st]
             /\ disk = [j \in {JobId} |-> _job_to_dict(st)]
             /\ files = {<<"out", i>> : i \in (1..NChunks) \ In}
             /\ task = [StartTask("resume_paused_job") EXCEPT
                           !.pc = "s_run", !.pending = indices, !.total = NChunks,
                           !.k = Len(indices) + 1, !.max_concurrency = cap]
             /\ io = [pc |-> "sched", indices |-> indices]
    /\ _cancelled = {}
    /\ _paused = {}
    /\ _persist_dirty_since = {}
    /\ _in_flight = {JobId}
    /\ fut = "running"
    /\ live = 1
    /\ done_cbs = {"_done"}
    /\ clock = 1
    /\ workers = [i \in 1..NChunks |-> IdleWorker]
    /\ api = IdleApi
    /\ heap = EmptyHeap
    /\ call = IdleCall
    /\ post = IdlePost

SchedNext ==
    \/ _run_llm_for_indices
    \/ \E i \in 1..NChunks : _llm_worker(i)
    \/ ProcessAfter
    \/ pause_job
    \/ cancel_job

SchedSpec == SchedInit /\ [][SchedNext]_vars

\* The pool threads keep running.
SchedLiveSpec ==
    /\ SchedSpec
    /\ WF_vars(_run_llm_for_indices)
    /\ WF_vars(ProcessAfter)
    /\ \A i \in 1..NChunks : WF_vars(_llm_worker(i))

\* -------------------------------------------------- throttled persistence
\* The store with its two locks, where the flush itself is examined: the
\* blocks under JobStore._lock are single steps, _persist_lock is held across
\* steps. io carries _persist_seq[job] (0 when absent), the holder of
\* _persist_lock, each thread's position and locals, and disk_seq, the
\* sequence number under which the snapshot on disk was captured.
MaxSeq == 3

Threads == {"flusher", "pool", "handler"}

IdleThread ==
    [pc |-> "idle", op |-> "none", require_dirty |-> FALSE, snap |-> <<>>, seq |-> 0, bumped |-> 0]

FlushFrame == UNCHANGED <<files, poolVars, clock, task, workers, api, heap, call, post>>

Th(t) == io.th[t]

PersistLockFree_always == TRUE

PersistLockFree == io.lock = "none"

\* A call that ends: the thread is idle again, a lock it held is free.
Returned(i, t) ==
    [i EXCEPT !.th[t] = IdleThread, !.lock = IF i.lock = t THEN "none" ELSE @]

\* _mark_dirty_locked -> _bump_persist_seq_locked(mark_dirty=True)
_bump_persist_seq_locked(i, t, op) ==
    [i EXCEPT !.seq = @ + 1, !.th[t].op = op, !.th[t].bumped = i.seq + 1]

flush_now_never(st) == FALSE

flush_now(st) == st.state \in Terminal

\* _flush_job is entered: the thread goes for _persist_lock.
EnterFlush(i, t, op, require_dirty) ==
    [i EXCEPT !.th[t].pc = "f_lock", !.th[t].op = op, !.th[t].require_dirty = require_dirty]

\* update(job_id, state=s) from a pool thread or a handler: the locked block,
\* then the synchronous flush of a terminal job.
jobs_update(t) ==
    /\ Th(t).pc = "idle" /\ io.seq < MaxSeq
    /\ HasJob /\ Job.state # "cancelled"
    /\ \E s \in {"running", "done", "error"} :
          LET st2 == ApplyUpdate(Job, [state |-> s])
              bumped == _bump_persist_seq_locked(io, t, "update")
          IN /\ _jobs' = [_jobs EXCEPT ![JobId] = st2]
             /\ _paused' = IF s \in Terminal THEN _paused \ {JobId} ELSE _paused
             /\ io' = IF flush_now(st2) THEN EnterFlush(bumped, t, "update", FALSE)
                      ELSE Returned(bumped, t)
    /\ _persist_dirty_since' = _persist_dirty_since \cup {JobId}
    /\ UNCHANGED <<_cancelled, disk>>
    /\ FlushFrame

\* add_stat: the counter changes under the lock; the job is not marked dirty.
jobs_add_stat ==
    /\ Th("pool").pc = "idle" /\ HasJob
    /\ add_stat(JobId, "llm_chunks")
    /\ UNCHANGED io
    /\ FlushFrame

CancelJob(st) ==
    LET st1 == IF st.state \notin {"done", "error"}
               THEN [st EXCEPT !.state = "cancelled", !.finished_at = Now]
               ELSE st
    IN [st1 EXCEPT !.chunk_statuses =
           [i \in Indices(st) |-> CancelChunk(st.chunk_statuses[i])]]

jobs_cancel ==
    /\ Th("handler").pc = "idle" /\ io.seq < MaxSeq
    /\ HasJob
    /\ _jobs' = [_jobs EXCEPT ![JobId] = CancelJob(Job)]
    /\ _cancelled' = _cancelled \cup {JobId}
    /\ _paused' = _paused \ {JobId}
    /\ _persist_dirty_since' = _persist_dirty_since \cup {JobId}
    /\ io' = EnterFlush(_bump_persist_seq_locked(io, "handler", "cancel"), "handler", "cancel", FALSE)
    /\ UNCHANGED disk
    /\ FlushFrame

\* flush_persistence(job_id) flushes whether dirty or not; flush_persistence()
\* flushes the jobs it finds dirty.
flush_persistence ==
    /\ Th("handler").pc = "idle"
    /\ \E all \in BOOLEAN :
          /\ all => JobId \in _persist_dirty_since
          /\ io' = EnterFlush(io, "handler", "flush_persistence", all)
    /\ UNCHANGED storeVars
    /\ FlushFrame

\* The flusher thread finds the job due.
flusher_due ==
    /\ Th("flusher").pc = "idle"
    /\ JobId \in _persist_dirty_since
    /\ io' = EnterFlush(io, "flusher", "_persist_loop", TRUE)
    /\ UNCHANGED storeVars
    /\ FlushFrame

SeqUnchanged_always(t) == TRUE

SeqUnchanged(t) == io.seq = Th(t).seq

_flush_job(t) ==
    /\ Th(t).pc \in {"f_lock", "f_capture", "f_write", "f_finish"}
    /\ FlushFrame
    /\ UNCHANGED <<_jobs, _cancelled, _paused>>
    /\ IF Th(t).pc = "f_lock"
       THEN /\ PersistLockFree
            /\ io' = [io EXCEPT !.lock = t, !.th[t].pc = "f_capture"]
            /\ UNCHANGED <<_persist_dirty_since, disk>>
       ELSE IF Th(t).pc = "f_capture"
       THEN /\ UNCHANGED disk
            /\ IF Th(t).require_dirty /\ JobId \notin _persist_dirty_since
               THEN io' = Returned(io, t) /\ UNCHANGED _persist_dirty_since
               ELSE IF ~HasJob
               THEN /\ _persist_dirty_since' = _persist_dirty_since \ {JobId}
                    /\ io' = Returned([io EXCEPT !.seq = 0], t)
               ELSE /\ io' = [io EXCEPT !.th[t].seq = io.seq,
                                        !.th[t].snap = <<_snapshot_job(Job)>>,
                                        !.th[t].pc = "f_write"]
                    /\ UNCHANGED _persist_dirty_since
       ELSE IF Th(t).pc = "f_write"
       THEN \* _persist_snapshot_unlocked: the file is replaced as a whole
            /\ disk' = [j \in DOMAIN disk \cup {JobId} |->
                           IF j = JobId THEN _job_to_dict(Th(t).snap[1]) ELSE disk[j]]
            /\ io' = [io EXCEPT !.disk_seq = Th(t).seq, !.th[t].pc = "f_finish"]
            /\ UNCHANGED _persist_dirty_since
       ELSE /\ UNCHANGED disk
            /\ IF ~HasJob
               THEN /\ _persist_dirty_since' = _persist_dirty_since \ {JobId}
                    /\ io' = Returned([io EXCEPT !.seq = 0], t)
               ELSE IF SeqUnchanged(t)
               THEN /\ _persist_dirty_since' = _persist_dirty_since \ {JobId}
                    /\ io' = Returned(io, t)
               ELSE \* dirty since now: the flag stays
                    /\ _persist_dirty_since' = _persist_dirty_since \cup {JobId}
                    /\ io' = Returned(io, t)

\* delete(job_id): the registry entries go under both locks, then the file,
\* still under _persist_lock.
jobs_delete ==
    /\ Th("handler").pc \in {"idle", "d_lock", "d_pop", "d_unlink"}
    /\ FlushFrame
    /\ IF Th("handler").pc = "idle"
       THEN /\ io' = [io EXCEPT !.th["handler"].pc = "d_lock", !.th["handler"].op = "delete"]
            /\ UNCHANGED storeVars
       ELSE IF Th("handler").pc = "d_lock"
       THEN /\ PersistLockFree
            /\ io' = [io EXCEPT !.lock = "handler", !.th["handler"].pc = "d_pop"]
            /\ UNCHANGED storeVars
       ELSE IF Th("handler").pc = "d_pop"
       THEN /\ _jobs' = [j \in DOMAIN _jobs \ {JobId} |-> _jobs[j]]
            /\ _cancelled' = _cancelled \ {JobId}
            /\ _paused' = _paused \ {JobId}
            /\ _persist_dirty_since' = _persist_dirty_since \ {JobId}
            /\ io' = IF HasJob THEN [io EXCEPT !.seq = 0, !.th["handler"].pc = "d_unlink"]
                     ELSE Returned([io EXCEPT !.seq = 0], "handler")
            /\ UNCHANGED disk
       ELSE /\ disk' = [j \in DOMAIN disk \ {JobId} |-> disk[j]]
            /\ io' = Returned([io EXCEPT !.disk_seq = 0], "handler")
            /\ UNCHANGED <<_jobs, _cancelled, _paused, _persist_dirty_since>>

\* A job of NChunks chunks being processed, as create and init_chunks wrote it.
FlushInit ==
    /\ \E state \in {"queued", "running"}, cs \in {"pending", "processing"} :
          LET st == MkJob(state, "process", [i \in 1..NChunks |-> cs], Model, 0)
          IN /\ _jobs = [j \in {JobId} |-> st]
             /\ disk = [j \in {JobId} |-> _job_to_dict(st)]
    /\ _cancelled = {}
    /\ _paused = {}
    /\ _persist_dirty_since = {}
    /\ files = {}
    /\ _in_flight = {}
    /\ fut = "none"
    /\ live = 0
    /\ done_cbs = {}
    /\ clock = 1
    /\ task = IdleTask
    /\ workers = [i \in 1..NChunks |-> IdleWorker]
    /\ api = IdleApi
    /\ heap = EmptyHeap
    /\ call = IdleCall
    /\ post = IdlePost
    /\ io = [pc |-> "flush", seq |-> 0, disk_seq |-> 0, lock |-> "none",
             th |-> [t \in Threads |-> IdleThread]]

FlushNext ==
    \/ \E t \in {"pool", "handler"} : jobs_update(t)
    \/ jobs_add_stat
    \/ jobs_cancel
    \/ flush_persistence
    \/ flusher_due
    \/ \E t \in Threads : _flush_job(t)
    \/ jobs_delete

FlushSpec == FlushInit /\ [][FlushNext]_vars

\* Every thread that is inside a call gets on with it, and the flusher wakes
\* up for a dirty job.
FlushLiveSpec ==
    /\ FlushSpec
    /\ WF_vars(flusher_due)
    /\ \A t \in Threads : WF_vars(_flush_job(t))
    /\ WF_vars(Th("handler").pc # "idle" /\ jobs_delete)

\* --------------------------------------------------- healing a state file
\* load_persisted_jobs on a state file of any content the format allows:
\* every job state and phase with every chunk list, written by this version
\* or an older one.
HealInputs ==
    {MkJob(x[2], x[3], x[1], Model, CountDone([i \in 1..Len(x[1]) |-> [state |-> x[1][i]]])) :
        x \in ({<<>>} \cup [1..NChunks -> ChunkStates]) \X JobStates \X _JOB_PHASES}

HealInit ==
    /\ \E st \in HealInputs : disk = [j \in {JobId} |-> _job_to_dict(st)]
    /\ files = {}
    /\ _jobs = <<>>
    /\ _cancelled = {}
    /\ _paused = {}
    /\ _persist_dirty_since = {}
    /\ _in_flight = {}
    /\ fut = "none"
    /\ live = 0
    /\ done_cbs = {}
    /\ clock = 1
    /\ task = IdleTask
    /\ workers = [i \in 1..NChunks |-> IdleWorker]
    /\ api = IdleApi
    /\ heap = EmptyHeap
    /\ call = IdleCall
    /\ post = IdlePost
    /\ io = IdleIo

HealNext == startup

HealSpec == HealInit /\ [][HealNext]_vars

\* ----------------------------------------------- cancel across restarts
\* The server process ends with nothing running: the store's memory is gone,
\* the state files stay, and the next process loads them.
process_exit ==
    /\ HasJob /\ api.pc = "idle"
    /\ _jobs' = <<>>
    /\ _cancelled' = {}
    /\ _paused' = {}
    /\ _persist_dirty_since' = {}
    /\ UNCHANGED <<disk, files, poolVars, clock, task, workers, api, heap, call, post, io>>

CancelLoadNext ==
    \/ startup
    \/ cancel_job
    \/ process_exit

\* Any state file, loaded, with cancel requests and restarts in any order.
CancelLoadSpec == HealInit /\ [][CancelLoadNext]_vars

\* ------------------------------------------------------------- claims
\* A step in which cancel(job_id) is called: the legacy cancel request, or
\* reset_job's first store call.
CancelCall ==
    \/ api.pc = "idle" /\ api'.pc = "idle" /\ api'.served # api.served /\ HasJob
    \/ api.op = "reset_job" /\ api.pc = "cancel" /\ api'.pc = "cb"

ChunkStates_of(st) == {st.chunk_statuses[i].state : i \in Indices(st)}

\* C1: at every moment the job's done_chunks equals the number of its chunks
\* whose state is done.
C1_DoneChunksMatch ==
    HasJob => Job.done_chunks = CountDone(Job.chunk_statuses)

C3_CancelledFrozen ==
    [][(HasJob /\ HasJob' /\ Job.state = "cancelled" /\ ~CancelCall) => Job' = Job]_vars

\* C4: at most one job function is executing for the job id, and it is the
\* one tracked in the in-flight map.
C4_OneInFlight ==
    live <= 1 /\ (live = 1 => JobId \in _in_flight /\ fut = "running")

\* C4 witness: a submit was refused while the tracked task was still running.
C4_Witness ==
    api.pc = "rb1" /\ live = 1 /\ task.pc # "idle"

\* C5: a cancel call on a running job leaves it cancelled, and a cancelled job
\* has no chunk in processing or retrying.
C5_CancelStopsChunks ==
    /\ [](HasJob /\ Job.state = "cancelled" =>
             ChunkStates_of(Job) \cap {"processing", "retrying"} = {})
    /\ [][(CancelCall /\ HasJob /\ Job.state = "running") =>
             (HasJob' /\ Job'.state = "cancelled")]_vars

\* C5 witness: the job was cancelled while a chunk worker was still working.
C5_Witness ==
    /\ HasJob /\ Job.state = "cancelled"
    /\ \E i \in 1..NChunks : workers[i].pc \in {"w_try", "w_rc", "w_retry1", "w_retry2", "w_post"}

C9_MergeOnlyWhenReady ==
    /\ [](HasJob /\ Job.state = "done" => AllDone(Job))
    /\ [][(api.pc = "idle" /\ api'.op = "merge_job") =>
             (Job.state = "paused" /\ Job.phase = "merge" /\ AllDone(Job))]_vars
    /\ [][(task.fn # "merge_outputs" /\ task'.fn = "merge_outputs") =>
             (api.op = "merge_job" /\ Job.phase = "merge" /\ AllDone(Job))]_vars
    /\ [][(task.fn = "merge_outputs" /\ task' # task /\ HasJob /\ HasJob'
           /\ Job'.state # Job.state) =>
             /\ Job.phase = "merge" /\ AllDone(Job)
             /\ \/ Job'.state = "running" /\ Job'.phase = "merge"
                \/ Job'.state = "done" /\ Job'.phase = "done"]_vars
    /\ [][(HasJob /\ HasJob' /\ Job.state # "done" /\ Job'.state = "done") =>
             (task.fn = "merge_outputs" /\ task.pc = "done")]_vars

\* C9 witness: merge_outputs has finished a job.
C9_Witness ==
    HasJob /\ Job.state = "done" /\ task.fn = "merge_outputs" /\ task.pc = "cleanup"

DoneHasOutput(st) ==
    st.state = "done" =>
        (st.phase = "done" /\ st.output_path # None /\ <<st.output_path, 0>> \in files)

\* C10: a done job has phase done and its output_path names a file that is
\* completely written; so has the job a restart would load from the state
\* file at this moment.
C10_DoneHasOutput ==
    /\ HasJob => DoneHasOutput(Job)
    /\ JobId \in DOMAIN disk => DoneHasOutput(_heal_loaded_job(_job_from_dict(disk[JobId])))

\* C10 witness: a done job after its work directory was cleaned up.
C10_Witness ==
    HasJob /\ Job.state = "done" /\ "cleanup_work_dir" \in Job.stats

\* A restart that finds the state file of the job as the store last wrote it.
RestartStep ==
    /\ clock' # clock /\ disk' = disk
    /\ HasJob /\ JobId \in DOMAIN disk /\ JobId \notin _persist_dirty_since

\* The job the statement of C8 describes: state and finished_at of a queued or
\* running job, state and timestamps of a processing or retrying chunk, and
\* nothing else.
HealedAsStated(st) ==
    [st EXCEPT
        !.state = IF st.state \in {"queued", "running"} THEN "paused" ELSE @,
        !.finished_at = IF st.state \in {"queued", "running"} THEN 0 ELSE @,
        !.chunk_statuses =
            [i \in 1..Len(st.chunk_statuses) |->
                IF st.chunk_statuses[i].state \in {"processing", "retrying"}
                THEN [st.chunk_statuses[i] EXCEPT !.state = "pending", !.started_at = 0,
                                                  !.finished_at = 0]
                ELSE st.chunk_statuses[i]]]

\* C8 (as stated): writing a job snapshot, reading it back and healing gives
\* the same job except that queued/running becomes paused with finished_at
\* null and processing/retrying chunks become pending with cleared
\* timestamps; every other field is unchanged.
C8_RoundTripAsStated ==
    [][RestartStep => (HasJob' /\ Job' = HealedAsStated(Job))]_vars

\* The job the amended statement describes: in addition the phase is derived
\* from the healed state and chunks, the counters are recomputed, and an
\* empty model name is read back as null.
HealedAmended(st) ==
    LET base == HealedAsStated(st)
        n == Len(base.chunk_statuses)
        ndone == Cardinality({i \in 1..n : base.chunk_statuses[i].state = "done"})
    IN [base EXCEPT
          !.chunk_statuses = [i \in 1..n |->
               [base.chunk_statuses[i] EXCEPT !.llm_model = IF @ = "" THEN None ELSE @]],
          !.last_llm_model = IF @ = "" THEN None ELSE @,
          !.total_chunks = IF @ < n THEN n ELSE @,
          !.done_chunks = ndone,
          !.phase = IF base.state = "done" THEN "done"
                    ELSE IF n = 0 THEN "validate"
                    ELSE IF ndone = n THEN "merge" ELSE "process"]

\* C8 (amended): the round trip gives the job of the statement with the phase
\* re-derived (done for a done job, else validate without chunks, merge when
\* every chunk is done, process otherwise), done_chunks recounted,
\* total_chunks at least the number of chunk records, and empty model names
\* null; the cancelled and paused flags follow the healed state.
C8_RoundTripAmended ==
    [][RestartStep =>
         /\ HasJob' /\ Job' = HealedAmended(Job)
         /\ (JobId \in _paused') = (Job'.state = "paused")
         /\ (JobId \in _cancelled') = (Job'.state = "cancelled")]_vars

\* C8 witness: a job written while running with a chunk in flight has been
\* loaded again as paused with that chunk pending.
C8_Witness ==
    /\ clock > 1 /\ HasJob /\ JobId \in DOMAIN disk /\ JobId \in _paused
    /\ disk[JobId].job.state = "running" /\ Job.state = "paused"
    /\ \E i \in Indices(Job) :
          /\ disk[JobId].job.chunk_statuses[i].state = "processing"
          /\ Job.chunk_statuses[i].state = "pending"
          /\ Job.chunk_statuses[i].started_at = 0

\* The store's objects hold the job of _jobs (the two views of SnapSpec agree).
HeapTracksStore ==
    IF HasJob THEN heap.root # 0 /\ Deref(heap.objs, heap.root) = Job ELSE heap.root = 0

\* C7: a snapshot returned by get(id) never changes after it is returned,
\* whatever mutations are later applied to the job: the object the caller
\* holds, its stats dict, its chunk list and its chunk records still read as
\* they did when get() returned.
C7_SnapshotStable ==
    /\ HeapTracksStore
    /\ heap.held # 0 => Deref(heap.objs, heap.held) = heap.seen

\* C7 witness: after get() returned, the job's state, its stats dict and one
\* of its chunk records were mutated in the store.
C7_Witness ==
    /\ heap.held # 0 /\ HasJob
    /\ Job.state # heap.seen.state
    /\ Job.stats # heap.seen.stats
    /\ Len(Job.chunk_statuses) = Len(heap.seen.chunk_statuses)
    /\ \E i \in Indices(Job) : Job.chunk_statuses[i] # heap.seen.chunk_statuses[i]

\* A step in which _finalize_processing writes its verdict on a job that is
\* not cancelled (the PROCESS run got past its cancelled and paused checks).
FinalizeWrite ==
    /\ task.pc \in {"f_upd_error", "f_upd_merge"} /\ task'.pc = "ret"
    /\ HasJob /\ Job.state # "cancelled"

\* C11: a PROCESS run that finishes without being paused or cancelled leaves
\* the job in error/process if some chunk is in state error, and otherwise in
\* paused/merge with every chunk done.
C11_ProcessVerdict ==
    [][FinalizeWrite =>
         /\ HasJob'
         /\ IF \E i \in Indices(Job') : Job'.chunk_statuses[i].state = "error"
            THEN Job'.state = "error" /\ Job'.phase = "process"
            ELSE Job'.state = "paused" /\ Job'.phase = "merge" /\ AllDone(Job')]_vars

\* The last store call of a VALIDATE run that was neither paused, cancelled
\* nor failed, on a job that is still not cancelled.
ValidateReady ==
    /\ task.fn = "run_job" /\ task.pc = "upd_ready" /\ task'.pc = "ret"
    /\ HasJob /\ Job.state # "cancelled"

\* C12: a VALIDATE run that is neither paused nor cancelled nor failed has
\* called init_chunks(total) and leaves the job in paused/process with total
\* pending chunks; while run_job executes no chunk worker and no scheduler
\* runs, and a PROCESS job function is only ever started by the resume or
\* retry-failed request handlers.
C12_ValidateStopsBeforeProcess ==
    /\ [][ValidateReady =>
            /\ HasJob' /\ Job'.state = "paused" /\ Job'.phase = "process"
            /\ Job'.total_chunks = task.k /\ Len(Job'.chunk_statuses) = task.k
            /\ \A i \in Indices(Job') : Job'.chunk_statuses[i].state = "pending"]_vars
    /\ [](task.fn = "run_job" =>
            /\ \A i \in 1..NChunks : workers[i].pc = "idle"
            /\ HasJob => \A i \in Indices(Job) : Job.chunk_statuses[i].state = "pending")
    /\ [][(task.fn # task'.fn /\ task'.fn \in {"resume_paused_job", "retry_failed_chunks"})
            => (task.fn = "none" /\ api.op \in {"resume_job", "retry_failed"})]_vars

\* C12 witness: run_job is about to return from a validated job it left in
\* paused/process.
C12_Witness ==
    /\ task.fn = "run_job" /\ task.pc = "ret"
    /\ HasJob /\ Job.state = "paused" /\ Job.phase = "process"
    /\ Len(Job.chunk_statuses) = NChunks

\* The chunk list cancel() leaves: chunks in flight go back to pending with
\* cleared timestamps and the message "cancelled" unless they carry one.
ChunksAfterCancel(st) ==
    [i \in 1..Len(st.chunk_statuses) |->
        LET cs == st.chunk_statuses[i]
        IN IF cs.state = "processing" \/ cs.state = "retrying"
           THEN [cs EXCEPT !.state = "pending", !.started_at = 0, !.finished_at = 0,
                           !.last_error_message =
                               IF cs.last_error_message = None THEN "cancelled"
                               ELSE cs.last_error_message]
           ELSE cs]

\* C13 (as stated): cancel(job_id) sets state=cancelled and finished_at=now,
\* rewrites every processing or retrying chunk to pending with message
\* "cancelled" unless one is set, and flushes the snapshot immediately.
C13_CancelAsStated ==
    [][(CancelCall /\ HasJob) =>
         /\ HasJob'
         /\ Job' = [Job EXCEPT !.state = "cancelled", !.finished_at = Now,
                               !.chunk_statuses = ChunksAfterCancel(Job)]
         /\ JobId \in DOMAIN disk' /\ disk'[JobId] = _job_to_dict(Job')]_vars

\* C13 (amended): as stated, except that a job already done or in error
\* keeps its state and finished_at; the cancelled flag is set and the paused
\* flag cleared in every case.
C13_CancelAmended ==
    [][(CancelCall /\ HasJob) =>
         /\ HasJob'
         /\ Job' = [Job EXCEPT
                      !.state = IF Job.state \in {"done", "error"} THEN @ ELSE "cancelled",
                      !.finished_at = IF Job.state \in {"done", "error"} THEN @ ELSE Now,
                      !.chunk_statuses = ChunksAfterCancel(Job)]
         /\ JobId \in _cancelled' /\ JobId \notin _paused'
         /\ JobId \in DOMAIN disk' /\ disk'[JobId] = _job_to_dict(Job')
         /\ JobId \notin _persist_dirty_since']_vars

\* C13 witness: a job cancelled while a chunk was in flight; the chunk is
\* pending again with the message "cancelled" and the state file shows it.
C13_Witness ==
    /\ HasJob /\ Job.state = "cancelled" /\ Job.finished_at # 0
    /\ \E i \in Indices(Job) :
          /\ Job.chunk_statuses[i].state = "pending"
          /\ Job.chunk_statuses[i].last_error_message = "cancelled"
          /\ workers[i].pc \in {"w_try", "w_rc", "w_retry1", "w_retry2", "w_post"}
    /\ JobId \in DOMAIN disk /\ disk[JobId] = _job_to_dict(Job)

\* The steps in which a handler calls pause(job_id) or resume(job_id).
PauseCall ==
    /\ \/ api.op = "pause_job" /\ api.pc = "pause"
       \/ api.op \in {"resume_job", "merge_job"} /\ api.pc = "rb1"
    /\ api'.pc # api.pc

ResumeCall ==
    /\ api.op \in {"resume_job", "merge_job"} /\ api.pc = "resume"
    /\ api'.pc # api.pc

\* C14: pause succeeds only when the job state is queued or running, and
\* resume succeeds only when the job state is paused; in every other state
\* the call returns failure and changes nothing.
C14_PauseResumeAdmission ==
    /\ [][PauseCall =>
            IF HasJob /\ Job.state \in {"queued", "running"}
            THEN PauseOk(JobId) /\ Job'.state = "paused" /\ is_paused(JobId)'
            ELSE ~PauseOk(JobId) /\ UNCHANGED storeVars]_vars
    /\ [][ResumeCall =>
            IF HasJob /\ Job.state = "paused"
            THEN ResumeOk(JobId) /\ Job'.state = "queued" /\ ~is_paused(JobId)'
                 /\ api'.pc # "idle"
            ELSE ~ResumeOk(JobId) /\ UNCHANGED storeVars /\ api'.pc = "idle"]_vars

\* C14 witness: the rollback of a resume has called pause() on a job that a
\* runner had meanwhile moved out of queued/running, and the call failed.
C14_Witness ==
    /\ api.op = "resume_job" /\ api.pc = "rb2"
    /\ HasJob /\ Job.state \notin {"paused", "queued", "running"}

\* C14 witness for resume: resume() is being called on a job that left the
\* paused state after the handler read it.
C14_ResumeRefused ==
    /\ api.op \in {"resume_job", "merge_job"} /\ api.pc = "resume"
    /\ HasJob /\ Job.state # "paused"

\* The steps in which a runner calls update(state="running", ...).
RunnerMarksRunning ==
    /\ \/ task.fn \in {"run_job", "merge_outputs"} /\ task.pc = "run"
       \/ task.pc = "s_run"
    /\ task'.pc # task.pc

\* C15: while a job is paused, an update that sets state to queued or running
\* is rejected, so a paused job leaves the paused state toward queued/running
\* only through resume, even when a runner thread races with pause.
C15_PausedYieldsOnlyToResume ==
    /\ [][(RunnerMarksRunning /\ HasJob /\ Job.state = "paused")
            => (HasJob' /\ Job'.state = "paused")]_vars
    /\ [][(HasJob /\ Job.state = "paused" /\ HasJob' /\ Job'.state \in {"queued", "running"})
            => (ResumeCall /\ Job'.state = "queued")]_vars

\* C15 witness: a PROCESS runner is past its update(state="running") with no
\* chunk submitted yet, and the job is still paused with the paused flag set.
C15_Witness ==
    /\ task.pc = "s_top" /\ task.in_flight = {}
    /\ \A i \in 1..NChunks : workers[i].pc = "idle"
    /\ HasJob /\ Job.state = "paused" /\ is_paused(JobId)

\* C16: any transition of a job to done, error or cancelled clears the job's
\* paused flag, so is_paused is false for every job in a terminal state.
C16_TerminalNotPaused ==
    (HasJob /\ Job.state \in Terminal) => ~is_paused(JobId)

\* C16 witness: a runner saw the paused flag and is about to record the
\* pause, but the job has meanwhile reached a terminal state and the flag is
\* gone.
C16_Witness ==
    /\ task.pc \in {"upd_paused", "a_upd_paused"}
    /\ HasJob /\ Job.state \in Terminal /\ ~is_paused(JobId)

\* C17: started_at is monotonic: once it holds a non-null value no update
\* overwrites it, across validate, process, retry and merge runs of the same
\* job.
C17_StartedAtKept ==
    [][(HasJob /\ Job.started_at # 0 /\ HasJob') => Job'.started_at = Job.started_at]_vars

\* C17 witness: a later PROCESS run of the job is past its
\* update(started_at=now), and the job still carries the earlier start time.
C17_Witness ==
    /\ task.fn \in {"resume_paused_job", "retry_failed_chunks"} /\ task.pc = "s_top"
    /\ HasJob /\ Job.started_at # 0 /\ Job.started_at < clock
    /\ Job.state = "running" /\ Job.phase = "process"

\* The chunk the resilient call works on, and the call's last failure when it
\* carried a status that is not retryable.
CallChunk == Job.chunk_statuses[RetryChunk]
LastOutcome == call.executed[Len(call.executed)]
LastFatal ==
    /\ call.executed # <<>>
    /\ LastOutcome.kind = "llm_error" /\ LastOutcome.code # 0
    /\ LastOutcome.code \notin {408, 409, 425, 429, 500, 502, 503, 504}

\* C18: one resilient LLM call makes at most 3 attempts (2 retries), sleeping
\* base*2^i with base 1.0s before retry i+1, and retries only on a status in
\* {408,409,425,429,500,502,503,504} or a failure with no status code.
C18_RetryBudget ==
    /\ Len(call.executed) <= 3 /\ Len(call.on_retry) <= 2 /\ Len(call.slept) <= 2
    /\ \A k \in 1..Len(call.slept) : call.slept[k] = 1 * 2^(k - 1)
    /\ Len(call.executed) <= Len(call.slept) + 1
    /\ call.pc = "execute" => Len(call.slept) = Len(call.executed)
    /\ \A k \in 1..Len(call.on_retry) :
          /\ call.on_retry[k] = k
          /\ call.executed[k].kind \in {"llm_error", "exception"}
          /\ call.executed[k].code \in {408, 409, 425, 429, 500, 502, 503, 504} \cup {0}

\* C18 witness: the call has used its three attempts, with sleeps of 1 s and
\* 2 s between them, and the worker has finished.
C18_Witness ==
    /\ call.pc = "finished" /\ Len(call.executed) = 3
    /\ call.slept = <<1, 2>> /\ call.on_retry = <<1, 2>>

\* What C19 says of the call itself: the failure leaves the call at the
\* attempt that hit it, with no on_retry call, no sleep and no attempt after
\* it, and the chunk's retries are what they were before that attempt.
FatalRaisedAtOnce ==
    /\ call.pc \in {"except", "w_err", "finished"}
    /\ call.raised = LastOutcome.code
    /\ Len(call.on_retry) = Len(call.executed) - 1
    /\ Len(call.slept) = Len(call.executed) - 1
    /\ HasJob /\ CallChunk.retries = call.retries0 + Len(call.executed) - 1

\* C19 (as stated): an LLM failure with an HTTP status outside the retryable
\* set is raised on the first attempt, with no on_retry call, no sleep and no
\* further attempt, and the chunk goes to error with retries unchanged.
C19_FatalAsStated ==
    LastFatal =>
        /\ FatalRaisedAtOnce
        /\ call.pc = "finished" =>
              CallChunk.state = "error" /\ CallChunk.last_error_code = LastOutcome.code

\* C19 (amended): as stated, except that when the job is cancelled before the
\* worker records the error the chunk is not put in error: it is pending, as
\* cancel() left it.
C19_FatalAmended ==
    LastFatal =>
        /\ FatalRaisedAtOnce
        /\ call.pc = "finished" =>
              \/ CallChunk.state = "error" /\ CallChunk.last_error_code = LastOutcome.code
              \/ is_cancelled(JobId) /\ CallChunk.state = "pending"
                                     /\ CallChunk.retries = call.retries0 + Len(call.executed) - 1

\* C19 witness: the first attempt failed with a status that is not retryable
\* and the worker has put the chunk in error.
C19_Witness ==
    /\ call.pc = "finished" /\ LastFatal /\ Len(call.executed) = 1
    /\ call.on_retry = <<>> /\ call.slept = <<>>
    /\ ~is_cancelled(JobId) /\ CallChunk.state = "error"
    /\ CallChunk.retries = call.retries0

\* C20: if the job is cancelled while the LLM client is in a backoff sleep,
\* the client raises a cancellation error (status 499) instead of starting
\* another attempt: no execute() follows the sleep, and the call ends.
C20_CancelInSleepStops ==
    /\ [](call.stopped_asleep =>
            /\ Len(call.executed) = Len(call.slept)
            /\ \/ call.pc \in {"asleep", "top"}
               \/ call.raised = 499 /\ call.pc \in {"except", "finished"})
    /\ (call.stopped_asleep ~> (call.raised = 499 /\ call.pc = "finished"))

\* C20 witness: cancel() came during a sleep and the worker has returned with
\* the cancellation error, the chunk pending again.
C20_Witness ==
    /\ call.stopped_asleep /\ call.pc = "finished" /\ call.raised = 499
    /\ is_cancelled(JobId) /\ HasJob /\ CallChunk.state = "pending"

\* What C21 says of the callback: one on_retry call per backoff, made before
\* that backoff's sleep, and as many calls as the retries the call reports
\* when it returns (the loop index).
OnRetryOncePerBackoff ==
    /\ Len(call.slept) <= Len(call.on_retry) /\ Len(call.on_retry) <= Len(call.slept) + 1
    /\ Len(call.on_retry) = Len(call.slept) + 1 <=> call.pc \in {"add_retry", "sleep"}
    /\ call.pc \in {"returned", "w_done", "w_stat"} => Len(call.on_retry) = call.i

\* C21 (as stated): on_retry is invoked exactly once per backoff and before
\* that backoff's sleep, so the number of on_retry calls equals the number of
\* retries reported, and the chunk's retries counter equals that number.
C21_RetriesAsStated ==
    /\ OnRetryOncePerBackoff
    /\ call.pc \in {"returned", "w_done", "w_stat"} =>
          HasJob /\ CallChunk.retries = Len(call.on_retry)

\* C21 (amended): as stated, except that the chunk's retries counter is
\* cumulative: it has grown by that number over its value when the call
\* began, and equals it for a chunk that had no retries before.
C21_RetriesAmended ==
    /\ OnRetryOncePerBackoff
    /\ call.pc \in {"returned", "w_done", "w_stat"} =>
          HasJob /\ CallChunk.retries = call.retries0 + Len(call.on_retry)
    /\ (call.pc = "finished" /\ call.retries0 = 0 /\ HasJob /\ CallChunk.state = "done") =>
          /\ CallChunk.retries = Len(call.on_retry)
          /\ Len(call.on_retry) > 0 =>
                CallChunk.last_error_code = call.last_code

\* C21 witness: one transient 500, then success: the chunk is done with
\* retries 1 and last_error_code 500.
C21_Witness ==
    /\ call.pc = "finished" /\ call.retries0 = 0
    /\ call.executed = <<[kind |-> "llm_error", code |-> 500], [kind |-> "ok", code |-> 0]>>
    /\ call.on_retry = <<1>> /\ call.slept = <<1>>
    /\ HasJob /\ CallChunk.state = "done"
    /\ CallChunk.retries = 1 /\ CallChunk.last_error_code = 500

\* The worker has failed: it is in, or has been through, an except branch.
WorkerFailed == call.pc \in {"except", "except_other"} \/ call.failed # "no"

C22_OtherException ==
    /\ call.pc = "finished" /\ call.failed = "other" /\ ~is_cancelled(JobId)
    /\ HasJob /\ CallChunk.state = "error" /\ CallChunk.last_error_message = "err"

\* C23: add_done_callback(job_id, cb) never propagates an exception raised by
\* cb to its caller, whether cb runs immediately (job not in flight) or after
\* the current task completes; the exception is only logged.
C23_CallbackNeverPropagates == post.propagated = 0

\* The part of C23 the code does keep: a callback attached to a future (run by
\* _wrap) never lets its exception out, it is logged.
C23_WrapLogs == post.logged + post.propagated <= post.ran

\* C24: add_done_callback(job_id, cb) runs cb exactly once: immediately when
\* the job is not in flight, otherwise only after the current task for that
\* job has completed; hence reset deletes the job and its directories only
\* after the job's background task has finished.
\* Every call is accounted for once (run, attached and waiting, or still in
\* the call); a callback runs only when the caller found no future or the
\* future it found has finished; the job is removed only while no job
\* function is running; and every call made has its callback run in the end.
CallInProgress == IF api.pc \in {"lookup", "act"} THEN 1 ELSE 0

CallbackRunsOk ==
    LET wrapped == Len(post'.pending) < Len(post.pending)
        g == IF wrapped THEN Head(post.pending).gen ELSE post.got
    IN /\ post'.ran = post.ran + 1
       /\ wrapped \/ api.pc = "act"
       /\ g = 0 \/ FutureDone(g)
       /\ wrapped => g > 0

C24_CallbackOnceAfterTask ==
    /\ [](post.calls = post.ran + Len(post.pending) + CallInProgress)
    /\ [][post'.ran # post.ran => CallbackRunsOk]_vars
    /\ [][(HasJob /\ ~HasJob') =>
            (task.pc = "idle" /\ fut # "running" /\ post'.ran = post.ran + 1)]_vars
    /\ \A n \in 1..MaxRequests : (post.calls = n) ~> (post.ran >= n)

\* reset_job found the job's task running, its cleanup waited on the future
\* and has run: the job and its directory are gone.
C24_Witness ==
    /\ post.attached >= 1 /\ post.pending = <<>> /\ post.ran = post.calls
    /\ ~HasJob /\ files = {} /\ task.pc = "idle"

\* reset_job found nothing in flight and cleaned up in the request.
C24_Immediate ==
    /\ post.attached = 0 /\ post.ran = 1 /\ ~HasJob /\ clock = 0

\* C25: if resume (or merge, or retry-failed) is accepted by the store but the
\* dispatcher rejects the background submit, the request fails with 409 and
\* the job is rolled back to the state it had before the request (paused
\* stays paused, error stays error); no task runs.
\* The step that ends on_submit_failure: the job, if it is still there, is in
\* the state the admission checks of the request saw (paused for resume and
\* merge, error for retry-failed).
RollbackEnds ==
    /\ api'.pc = "idle"
    /\ \/ api.op = "resume_job" /\ api.pc = "rb2"
       \/ api.op = "merge_job" /\ api.pc = "rb1"
       \/ api.op = "retry_failed" /\ api.pc = "rb2"

StateBeforeRequest == IF api.op = "retry_failed" THEN "error" ELSE "paused"

C25_RolledBack ==
    [][RollbackEnds =>
         /\ HasJob' => _jobs'[JobId].state = StateBeforeRequest
         /\ UNCHANGED <<task, _in_flight, fut, live>>]_vars

\* C26: an abort at any point between the temp-file write and the rename
\* never leaves a partial final file: every final file (job snapshot,
\* pre/out/resp chunk file, merged output) is either absent, the previous
\* complete version, or the new complete version.
\* At every moment, killed or not, a final file that exists holds the
\* complete payload of one write call; and a step changes a final file only
\* to the complete payload of the call that renames onto it.
FinalFiles == {FinalPath(p) : p \in Paths} \cap DOMAIN io.fs

Absent(fs, n) == n \notin DOMAIN fs

C26_NoPartialFinalFile ==
    /\ [](\A n \in FinalFiles : \E v \in 1..io.version : io.fs[n] = Complete(v))
    /\ [][\A p \in Paths :
            LET n == FinalPath(p)
            IN \/ Absent(io.fs, n) /\ Absent(io'.fs, n)
               \/ ~Absent(io.fs, n) /\ ~Absent(io'.fs, n) /\ io'.fs[n] = io.fs[n]
               \/ \E w \in Writers :
                     /\ io.w[w].pc = "replace" /\ io.w[w].path = p
                     /\ ~Absent(io'.fs, n) /\ io'.fs[n] = Complete(io.w[w].v)]_vars

\* Killed in the middle of a temp-file write, with the previous complete
\* version under the final name.
C26_Witness ==
    /\ ~io.alive
    /\ \E w \in Writers :
          /\ io.w[w].pc = "write"
          /\ TmpPath(w) \in DOMAIN io.fs
          /\ Len(io.fs[TmpPath(w)]) \in 1..(PieceCount - 1)
          /\ FinalPath(io.w[w].path) \in DOMAIN io.fs
          /\ \E v \in 1..(io.w[w].v - 1) : io.fs[FinalPath(io.w[w].path)] = Complete(v)

\* C27: for any sequence of chunk outputs, the merged text never contains two
\* adjacent non-blank lines: exactly one blank line is inserted between
\* adjacent non-blank lines within or across chunks, and existing blank lines
\* are preserved.
\* The lines of the merged text are the normalized lines of the chunks in
\* order, with one blank line put between every two non-blank lines that were
\* adjacent, and nothing else added or removed.
RECURSIVE Concat(_)
Concat(seqs) == IF seqs = <<>> THEN <<>> ELSE Head(seqs) \o Concat(Tail(seqs))

RECURSIVE Spaced(_)
Spaced(lines) ==
    IF Len(lines) <= 1 THEN lines
    ELSE IF lines[1] # <<>> /\ lines[2] # <<>>
         THEN <<lines[1], <<>>>> \o Spaced(Tail(lines))
         ELSE <<lines[1]>> \o Spaced(Tail(lines))

TextLines(text) ==
    LET split == Split(text)
    IN IF EndsWith(text, "LF") THEN SubSeq(split, 1, Len(split) - 1) ELSE split

ChunkLines == Concat([k \in DOMAIN io.chunks |-> _iter_normalized_lines_for_merge(io.chunks[k])])

AdjacentNonBlank(lines) ==
    \E j \in 1..(Len(lines) - 1) : lines[j] # <<>> /\ lines[j + 1] # <<>>

C27_MergedLinesSpaced ==
    io.pc = "done" =>
        /\ ~AdjacentNonBlank(TextLines(io.out))
        /\ TextLines(io.out) = Spaced(ChunkLines)

\* Two non-blank lines adjacent inside the first chunk, another pair across
\* the chunk boundary, and a blank line that was already there.
C27_Witness ==
    /\ io.pc = "done"
    /\ io.chunks = << <<"a", "LF", "a">>, <<"a", "LF", "LF">> >>
    /\ io.out = <<"a", "LF", "LF", "a", "LF", "LF", "a", "LF", "LF">>

\* C28: a job paused during running/process reaches paused/process, and a
\* subsequent resume processes exactly the chunks still pending and
\* eventually brings the job to paused/merge (given every LLM call succeeds),
\* without reprocessing chunks already done.
\* What this needs at every step: pause() on a running PROCESS job leaves it
\* paused/process; a chunk that is done is never taken up again; and, as long
\* as no LLM call has failed, a job is in paused/merge only with every chunk
\* done.
NoLlmFailure(st) ==
    \A i \in Indices(st) :
        /\ st.chunk_statuses[i].state \notin {"error", "retrying"}
        /\ st.chunk_statuses[i].retries = 0
        /\ st.chunk_statuses[i].last_error_code = 0

PauseStep ==
    /\ api.op = "pause_job" /\ api.pc = "pause" /\ api'.pc = "idle"
    /\ HasJob /\ Job.state = "running" /\ Job.phase = "process"

C28_PausedThenResumed ==
    /\ [][PauseStep => (Job'.state = "paused" /\ Job'.phase = "process")]_vars
    /\ [][\A i \in 1..NChunks :
            (HasJob /\ HasJob' /\ i \in Indices(Job) /\ Job.chunk_statuses[i].state = "done")
                => Job'.chunk_statuses[i].state = "done"]_vars
    /\ []((HasJob /\ Job.state = "paused" /\ Job.phase = "merge" /\ NoLlmFailure(Job))
             => (AllDone(Job) /\ Job.done_chunks = Job.total_chunks))

\* C29: a job persisted mid-PROCESS with k chunks done (others pending,
\* processing or retrying) loads after a restart as paused/process with
\* done_chunks == k and every not-done chunk pending, and a resume from that
\* state can be issued and completes the job.
\* The load leaves the job paused/process, counted right, the done chunks as
\* they were and the others pending, and resume_job's checks and resume()
\* accept it; the run that follows leaves the done chunks alone; an accepted
\* resume leads to paused/merge with every chunk done, and a merge started
\* from there to state done with the output file.
LoadStep == ~HasJob /\ HasJob'

Persisted == _job_from_dict(disk[JobId])

C29_Completed ==
    /\ HasJob /\ Job.state = "done" /\ <<"output", 0>> \in files
    /\ Job.chunk_statuses[2].started_at > 1

\* C30: a job cancelled while its chunks are being processed never gets a
\* final output file at output_path and never later shows state done, and no
\* chunk remains in processing or retrying.
\* A cancel call that finds a chunk in processing or retrying leaves the job
\* cancelled in phase process with no such chunk; from then on, as long as the
\* job exists, it stays cancelled in phase process, no chunk is in processing
\* or retrying, and there is no file at output_path.
CancelledInProcess == HasJob /\ Job.state = "cancelled" /\ Job.phase = "process"

InFlightChunks(st) ==
    {i \in Indices(st) : st.chunk_statuses[i].state \in {"processing", "retrying"}}

C30_CancelledNeverCompletes ==
    /\ [][(CancelCall /\ HasJob /\ InFlightChunks(Job) # {}) => CancelledInProcess']_vars
    /\ [][(CancelledInProcess /\ HasJob') => CancelledInProcess']_vars
    /\ [](CancelledInProcess => (InFlightChunks(Job) = {} /\ <<"output", 0>> \notin files))

\* The run that was cancelled in the middle has ended: chunk 1 had been
\* processed, chunk 2 not, and there is no final output.
C30_Witness ==
    /\ CancelledInProcess /\ live = 0 /\ task.pc = "idle"
    /\ Job.chunk_statuses[1].state = "done" /\ <<"out", 1>> \in files
    /\ Job.chunk_statuses[2].state = "pending"
    /\ <<"output", 0>> \notin files

\* C31: after pause is observed the chunk scheduler submits no new index, lets
\* in-flight workers run to completion, returns "paused" only once the
\* in-flight set is empty, and leaves every not-yet-submitted index in state
\* pending.
\* The scheduler hands an index to a worker only in a step that finds the job
\* not paused; a worker in flight is never dropped before it has finished;
\* the result "paused" comes with an empty in-flight set, some index left
\* unsubmitted, and every unsubmitted index of a job that is still there and
\* not cancelled in state pending.
SchedulerSubmits ==
    task.pc = "s_fill_p" /\ task'.pc = "s_fill_c" /\ task'.in_flight # task.in_flight

ReturnsPaused == task.pc = "s_mark" /\ task'.pc = "s_join"

C31_PauseStopsSubmission ==
    /\ [][SchedulerSubmits => JobId \notin _paused]_vars
    /\ [][\A i \in 1..NChunks :
            (workers[i].pc # "idle" /\ workers'[i].pc = "idle") => workers[i].pc = "finished"]_vars
    /\ [][ReturnsPaused =>
            /\ task'.outcome = "paused" /\ task.in_flight = {} /\ task.pending # <<>>
            /\ \A i \in 1..NChunks : workers[i].pc \in {"idle", "finished"}
            /\ (HasJob' /\ Job'.state # "cancelled") =>
                  \A k \in 1..Len(task.pending) :
                     Job'.chunk_statuses[task.pending[k]].state = "pending"]_vars
    /\ [](task.outcome = "paused" => task.in_flight = {})

\* The scheduler has returned "paused" after a worker it had started ran to
\* completion while the job was paused: chunk 1 is done, chunk 2 was never
\* submitted.
C31_Witness ==
    /\ task.outcome = "paused" /\ task.pc = "s_join" /\ task.pending = <<2>>
    /\ HasJob /\ JobId \in _paused
    /\ Job.chunk_statuses[1].state = "done" /\ Job.chunk_statuses[2].state = "pending"

\* C32: within one job the number of chunk workers in flight never exceeds
\* llm.max_concurrency, and indices are submitted in the order of the input
\* index list, each at most once per scheduler run.
ActiveWorkers == {i \in 1..NChunks : workers[i].pc \notin {"idle", "finished"}}

IsSuffix(s, t) == Len(s) <= Len(t) /\ s = SubSeq(t, Len(t) - Len(s) + 1, Len(t))

\* The unsubmitted indices are always a tail of the input list, and a submit
\* takes the first of them, which no worker holds.
SubmitsInOrder ==
    /\ [](IsSuffix(task.pending, io.indices))
    /\ [][SchedulerSubmits =>
            /\ task'.pending = Tail(task.pending)
            /\ task'.in_flight = task.in_flight \cup {Head(task.pending)}
            /\ Head(task.pending) \notin task.in_flight
            /\ workers[Head(task.pending)].pc = "idle"]_vars

C32_ConcurrencyAsStated ==
    /\ [](Cardinality(ActiveWorkers) <= task.max_concurrency)
    /\ SubmitsInOrder

\* As the code has it: the pool holds max(1, llm.max_concurrency) workers.
C32_ConcurrencyAmended ==
    /\ [](Cardinality(ActiveWorkers) <= Max(1, task.max_concurrency))
    /\ [](Cardinality(task.in_flight) <= Max(1, task.max_concurrency))
    /\ SubmitsInOrder

\* Two indices to run with room for one worker: the second index waits while
\* the first is worked on.
C32_Witness ==
    /\ io.indices = <<1, 2>> /\ task.max_concurrency = 1
    /\ task.pending = <<2>> /\ task.in_flight = {1} /\ ActiveWorkers = {1}
    /\ task.pc = "s_wait"

\* C33: every state change of a chunk during PROCESS follows
\* pending -> processing -> (retrying)* -> done | error: a chunk never goes
\* from done or error back to processing without first being reset to
\* pending, and never jumps from pending to done or error.
ForwardChanges ==
    {<<"pending", "processing">>, <<"processing", "retrying">>,
     <<"processing", "done">>, <<"processing", "error">>,
     <<"retrying", "done">>, <<"retrying", "error">>}

ChunkChange(i) == <<Job.chunk_statuses[i].state, Job'.chunk_statuses[i].state>>

Lifecycle(extra) ==
    (HasJob /\ HasJob') =>
        \A i \in DOMAIN Job.chunk_statuses \cap DOMAIN Job'.chunk_statuses :
           \/ ChunkChange(i)[1] = ChunkChange(i)[2]
           \/ ChunkChange(i)[2] = "pending"
           \/ ChunkChange(i) \in ForwardChanges \cup extra

RetryRollback == api.op = "retry_failed" /\ api.pc = "rb2"

StartsWorker == \E i \in 1..NChunks : workers[i].pc = "idle" /\ workers'[i].pc = "w_start"

\* The scheduler's two reads of is_cancelled inside the loop, finding it set.
ObservesCancel ==
    /\ task.pc \in {"s_top", "s_fill_c"} /\ task'.pc # task.pc
    /\ JobId \in _cancelled
    /\ task.pc = "s_top" => (task.pending # <<>> \/ task.in_flight # {})

SchedulerResult == task.pc \in {"s_post_c", "s_post_p", "s_mark"} /\ task'.pc = "s_join"

RunnerRecords == task.pc = "a_upd_cancelled" /\ task'.pc = "ret"

C34_CancelObserved ==
    /\ [][StartsWorker => task.pc = "s_fill_p"]_vars
    /\ [][ObservesCancel =>
            /\ task'.pc \in {"s_post_c", "s_wait", "s_top"}
            /\ task'.in_flight = task.in_flight /\ task'.pending = task.pending
            /\ ~StartsWorker]_vars
    /\ [][(task.pc = "s_post_c" /\ task'.pc # "s_post_c" /\ JobId \in _cancelled) =>
            SchedulerResult /\ task'.outcome = "cancelled"]_vars
    /\ [][(task.pc = "a_c" /\ task'.pc # "a_c" /\ task.outcome = "cancelled") =>
            task'.pc = "a_upd_cancelled"]_vars
    /\ [][(RunnerRecords /\ HasJob') => Job'.state = "cancelled"]_vars

C34_ThenRecorded ==
    (task.outcome = "cancelled") ~> (task.pc = "ret" /\ HasJob /\ Job.state = "cancelled")

\* C34: the scheduler that has read the cancelled flag as set submits nothing
\* more and returns "cancelled" whatever else holds, and the runner then
\* comes to its end with state cancelled recorded.
C34_CancelStopsAndRecords == C34_CancelObserved /\ C34_ThenRecorded

\* Cancelled after the last index was submitted: the result was "cancelled"
\* and the runner has finished on a job in state cancelled.
C34_Witness ==
    /\ task.pc = "ret" /\ task.outcome = "cancelled" /\ task.pending = <<>>
    /\ Len(io.indices) = NChunks
    /\ HasJob /\ Job.state = "cancelled"

\* C35: a flush clears a job's dirty flag only if the job's sequence number
\* has not advanced since the flushed snapshot was captured; therefore a
\* mutation that races with a flush is never lost and the on-disk snapshot
\* eventually reflects the latest in-memory state.
FlushClears(t) ==
    /\ Th(t).pc = "f_finish" /\ io'.th[t].pc = "idle"
    /\ HasJob /\ JobId \in _persist_dirty_since /\ JobId \notin _persist_dirty_since'

OnDisk == _job_from_dict(disk[JobId])

InMemory == _job_from_dict(_job_to_dict(_snapshot_job(Job)))

ClearsOnlyIfUnchanged ==
    [][\A t \in Threads : FlushClears(t) => (io.seq = Th(t).seq /\ io.disk_seq = io.seq)]_vars

\* A job that is not flagged dirty has its last counted mutation on disk.
NeverLost == (HasJob /\ JobId \notin _persist_dirty_since) => io.disk_seq = io.seq

InWriteSection == {t \in Threads : Th(t).pc \in {"f_capture", "f_write", "f_finish", "d_pop", "d_unlink"}}

WritesSnapshot(t) == Th(t).pc = "f_write" /\ io'.th[t].pc = "f_finish"

C36_WritesSerializedMonotone ==
    /\ [](Cardinality(InWriteSection) <= 1 /\ InWriteSection \subseteq {io.lock})
    /\ [][\A t \in Threads : WritesSnapshot(t) =>
            /\ io'.disk_seq >= io.disk_seq
            /\ io'.disk_seq = Th(t).seq
            /\ io.seq >= Th(t).seq]_vars
    /\ [][(JobId \in DOMAIN disk /\ JobId \in DOMAIN disk') => io'.disk_seq >= io.disk_seq]_vars

\* A synchronous flush has written the snapshot of sequence number 2 over the
\* one of sequence number 1 while the flusher waits for the lock.
C36_Witness ==
    /\ io.disk_seq = 2 /\ io.lock # "none" /\ io.lock # "flusher"
    /\ Th(io.lock).pc = "f_finish" /\ Th(io.lock).op \in {"update", "cancel"}
    /\ Th("flusher").pc = "f_lock"

\* C37: every transition of a job to done, error or cancelled is written to
\* disk before the mutating call returns, so a crash right after the call
\* never reloads the job in a non-terminal state.
TerminalCallReturns(t) ==
    /\ Th(t).op \in {"update", "cancel"} /\ Th(t).pc # "idle"
    /\ io'.th[t].pc = "idle"

Reloaded(d) == _heal_loaded_job(_job_from_dict(d[JobId]))

\* A mutating call that returns without a flush: the sequence number went up
\* in a step that begins and ends with the thread idle.
ReturnsUnflushed(t) ==
    Th(t).pc = "idle" /\ io'.th[t].pc = "idle" /\ io'.seq = io.seq + 1 /\ io'.th = io.th

FlushedIfTerminal ==
    [][(HasJob' /\ \E t \in Threads : ReturnsUnflushed(t)) => Job'.state \notin Terminal]_vars

SomeChunk(st, states) == \E i \in Indices(st) : st.chunk_statuses[i].state \in states

C38_PhaseAsStated ==
    HasJob =>
        Job.phase = IF Job.chunk_statuses = <<>> THEN "validate"
                    ELSE IF Job.state = "done" THEN "done"
                    ELSE IF AllDone(Job) THEN "merge"
                    ELSE "process"

\* As the code has it: a job in state done is in phase done whether or not it
\* has chunks.
C38_PhaseDoneFirst ==
    HasJob =>
        /\ Job.phase = IF Job.state = "done" THEN "done"
                       ELSE IF Job.chunk_statuses = <<>> THEN "validate"
                       ELSE IF AllDone(Job) THEN "merge"
                       ELSE "process"
        /\ Job.phase = "process" => SomeChunk(Job, {"pending", "error"})
        /\ ~SomeChunk(Job, {"processing", "retrying"})

\* An error job whose file said phase done is loaded in phase process.
C38_Witness ==
    /\ HasJob /\ Job.state = "error" /\ Job.phase = "process"
    /\ disk[JobId].job.phase = "done"
    /\ SomeChunk(Job, {"error"})

\* C39: is_cancelled(job_id) is true exactly when the job's state is
\* cancelled: the cancelled flag and the cancelled state are set together by
\* cancel and neither exists without the other (including cancel on a job
\* already done or error, and jobs loaded from disk).
C39_FlagIffState ==
    HasJob => (is_cancelled(JobId) <=> Job.state = "cancelled")

\* As the code has it: the state cancelled never exists without the flag; the
\* flag exists without the state on a job that was done or error when it was
\* cancelled, and only there.
C39_StateImpliesFlag ==
    /\ HasJob => (Job.state = "cancelled" => is_cancelled(JobId))
    /\ HasJob => (is_cancelled(JobId) => Job.state \in {"cancelled", "done", "error"})
    /\ ~HasJob => ~is_cancelled(JobId)

C39_AfterCancelAndLoad ==
    /\ [][(CancelCall /\ HasJob /\ HasJob') =>
            /\ is_cancelled(JobId)'
            /\ Job'.state = IF Job.state \in {"done", "error"} THEN Job.state ELSE "cancelled"]_vars
    /\ [][(LoadStep /\ HasJob') => (is_cancelled(JobId)' <=> Job'.state = "cancelled")]_vars

C39_FlagWithState == []C39_StateImpliesFlag /\ C39_AfterCancelAndLoad

\* A loaded job was cancelled: flag and state are both there, and the state
\* is in the file from which the next process sets the flag.
C39_Witness ==
    /\ HasJob /\ is_cancelled(JobId) /\ Job.state = "cancelled"
    /\ api.served = 1 /\ disk[JobId].job.state = "cancelled"

\* C40: delete(job_id) racing with a flush of the same job never leaves a
\* snapshot file on disk after delete returns, and an in-progress flush never
\* re-creates the file or the registry entry for a deleted job.
Deleted == ~HasJob /\ Th("handler").pc # "d_unlink"

====
